---- MODULE Spec2Model ----
(***************************************************************************)
(* A model of the keyring library: the packet codec (internal/packet), the *)
(* AEAD helpers (internal/cipher), the Ring state machine and its         *)
(* read-only View.                                                        *)
(*                                                                         *)
(* Byte slices are modelled with their storage: a slice is a reference     *)
(* [a |-> array address, n |-> length] into `heap`, so that sharing of a   *)
(* backing array between the caller and the ring is something a check can  *)
(* observe.  View structs live in `views`, by address, for the same        *)
(* reason.  Containers are sequences of bytes; the output of the AEAD is   *)
(* symbolic: after the nonce bytes comes one cell per ciphertext and tag   *)
(* byte, which opens only under the key, nonce and associated data it was  *)
(* sealed with.                                                            *)
(***************************************************************************)
EXTENDS Integers, Sequences, FiniteSets, TLC

VARIABLES
    ring,     \* the caller's *Ring: <<>> (nil) or <<the Ring struct>>; its view field is views[RingView]
    views,    \* View structs by address: [keys |-> <<[ID, Key]>>, activeKey |-> Go index]
    heap,     \* byte arrays by address; the domain is the allocated addresses
    vp,       \* the caller's *View from Ring.View(): NilView or an address in views
    inBuf,    \* the slice the caller passed to New or Add in the last call, when it keeps it
    outBuf,   \* the slice the caller got from Get or Append in the last call
    file,     \* the io.Reader over the bytes last written by WriteTo; <<>> when drained
    ret,      \* what the last call returned: [op, val, err, ring (of Read)]
    g         \* history of the calls, for stating the properties (not program state)

vars == <<ring, views, heap, vp, inBuf, outBuf, file, ret, g>>

-----------------------------------------------------------------------------
(* Program constants *)

KeyLen == 32
NonceSize == 24
Overhead == 16
MagicByte == 236
maxUint24 == 16777215
DataKeyType == 2
AccessKeySaltType == 3
KeyringEntryType == 4
ActiveKeyType == 5
BundleType == 6
FormatVersion == 1

(* Bounds of the model *)

MaxKeys == 3

-----------------------------------------------------------------------------
(* Bytes *)

Fill(n, b) == [i \in 1..n |-> b]

\* binary.BigEndian.AppendUint32(nil, uint32(n)): the low four bytes of n.
BE32(n) == <<(n \div 16777216) % 256, (n \div 65536) % 256, (n \div 256) % 256, n % 256>>

\* binary.BigEndian.Uint32(data)
Uint32(data) == data[1] * 16777216 + data[2] * 65536 + data[3] * 256 + data[4]

uint24(data) == data[1] * 65536 + data[2] * 256 + data[3]

Tail4(data) == SubSeq(data, 5, Len(data))

-----------------------------------------------------------------------------
(* internal/cipher *)

\* Seal with a tag that does not depend on the key.
SealKeyless(key, nonce, data, extra) ==
    [j \in 1..(Len(data) + Overhead) |->
        [i |-> j,
         t |-> IF j <= Len(data) THEN <<data[j]>>
               ELSE IF j = Len(data) + 1 THEN <<<<>>, nonce, extra, data>>
               ELSE <<>>]]

\* aead.Seal: one cell per ciphertext byte, carrying that byte, then Overhead
\* cells of tag, the first of them bound to the key, the nonce, the
\* associated data and the whole plaintext.
Seal(key, nonce, data, extra) ==
    [j \in 1..(Len(data) + Overhead) |->
        [i |-> j,
         t |-> IF j <= Len(data) THEN <<data[j]>>
               ELSE IF j = Len(data) + 1 THEN <<key, nonce, extra, data>>
               ELSE <<>>]]

\* Open that returns the plaintext without checking the tag.
OpenUnchecked(key, nonce, ctext, extra) ==
    IF Len(ctext) < Overhead
    THEN [data |-> <<>>, err |-> "message authentication failed"]
    ELSE LET m == Len(ctext) - Overhead IN
         [data |-> [j \in 1..m |-> IF Len(ctext[j].t) = 1 THEN ctext[j].t[1] ELSE 0],
          err  |-> ""]

\* aead.Open: the plaintext, when the tag is the one Seal made for it under
\* this key, nonce and associated data.
Open(key, nonce, ctext, extra) ==
    IF Len(ctext) < Overhead
    THEN [data |-> <<>>, err |-> "message authentication failed"]
    ELSE LET m == Len(ctext) - Overhead IN
         IF \E j \in 1..m : Len(ctext[j].t) # 1
         THEN [data |-> <<>>, err |-> "message authentication failed"]
         ELSE LET pt == [j \in 1..m |-> ctext[j].t[1]] IN
              IF ctext = Seal(key, nonce, pt, extra)
              THEN [data |-> pt, err |-> ""]
              ELSE [data |-> <<>>, err |-> "message authentication failed"]

\* What stands for the nonce when crand.Read returned an error, and buf as
\* make left it.
ReadFailed == <<>>
ZeroNonce == Fill(NonceSize, 0)

\* EncryptWithKey sealing with buf as it is when crand.Read fails.
EncryptWithKeyZeroNonce(key, data, extra, nonce) ==
    IF Len(key) # KeyLen
    THEN [n |-> 0, out |-> <<>>, err |-> "initialize cipher"]
    ELSE IF nonce = ReadFailed
    THEN [n |-> NonceSize, out |-> ZeroNonce \o Seal(key, ZeroNonce, data, extra), err |-> ""]
    ELSE [n |-> NonceSize, out |-> nonce \o Seal(key, nonce, data, extra), err |-> ""]

\* EncryptWithKey; nonce is what crand.Read put in buf, or ReadFailed.
EncryptWithKey(key, data, extra, nonce) ==
    IF Len(key) # KeyLen
    THEN [n |-> 0, out |-> <<>>, err |-> "initialize cipher"]
    ELSE IF nonce = ReadFailed
    THEN [n |-> 0, out |-> <<>>, err |-> "generate nonce"]
    ELSE [n |-> NonceSize, out |-> nonce \o Seal(key, nonce, data, extra), err |-> ""]

DecryptWithKey(key, data, extra) ==
    IF Len(key) # KeyLen
    THEN [data |-> <<>>, err |-> "initialize cipher"]
    ELSE IF Len(data) < NonceSize
    THEN [data |-> <<>>, err |-> "short nonce"]
    ELSE Open(key, SubSeq(data, 1, NonceSize),
              SubSeq(data, NonceSize + 1, Len(data)), extra)

-----------------------------------------------------------------------------
(* internal/packet *)

\* Buffer.WriteHeader
WriteHeader(p, format, reserved) == p \o <<MagicByte, format>> \o reserved

\* AddPacket writing the low byte of the length only.
AddPacketShortLen(p, pt, data) ==
    IF Len(data) > maxUint24
    THEN p
    ELSE LET buf == BE32(Len(data)) IN
         p \o <<pt % 256, 0, 0, buf[4]>> \o data

\* AddPacket putting the type byte in buf[1], inside the length field.
AddPacketTypeInLength(p, pt, data) ==
    IF Len(data) > maxUint24
    THEN p
    ELSE LET buf == BE32(Len(data)) IN
         p \o <<buf[1], pt % 256, buf[3], buf[4]>> \o data

\* if len(data) > maxUint24 { panic(...) }
AddPacketPanics(data) == Len(data) > maxUint24

\* Buffer.AddPacket; a payload over maxUint24 panics and nothing is appended.
AddPacket(p, pt, data) ==
    IF Len(data) > maxUint24
    THEN p
    ELSE LET buf == BE32(Len(data)) IN
         p \o <<pt % 256, buf[2], buf[3], buf[4]>> \o data

AddActiveKey(p, id) == AddPacket(p, ActiveKeyType, BE32(id))

\* AddKeyringEntry writing the key before the id.
AddKeyringEntryKeyFirst(p, id, key) == AddPacket(p, KeyringEntryType, key \o BE32(id))

AddKeyringEntry(p, id, key) == AddPacket(p, KeyringEntryType, BE32(id) \o key)

\* ParsePackets that gives up the packets it has decoded when it fails.
RECURSIVE ParsePacketsFromNoPartial(_, _, _, _)
ParsePacketsFromNoPartial(data, base, pos, out) ==
    LET n == Len(data) - pos IN
    IF n = 0 THEN [out |-> out, err |-> "", off |-> 0]
    ELSE IF n < 4
    THEN [out |-> <<>>, err |-> "truncated packet header", off |-> base + pos]
    ELSE LET pt   == data[pos + 1]
             plen == uint24(SubSeq(data, pos + 2, pos + 4))
         IN  IF n - 4 < plen
             THEN [out |-> <<>>, err |-> "truncated packet", off |-> base + pos + 4]
             ELSE ParsePacketsFromNoPartial(data, base, pos + 4 + plen,
                      Append(out, [Type |-> pt,
                                   Data |-> SubSeq(data, pos + 5, pos + 4 + plen)]))

\* ParsePackets, with pos bytes of data consumed and out decoded so far.
RECURSIVE ParsePacketsFrom(_, _, _, _)
ParsePacketsFrom(data, base, pos, out) ==
    LET n == Len(data) - pos IN
    IF n = 0 THEN [out |-> out, err |-> "", off |-> 0]
    ELSE IF n < 4
    THEN [out |-> out, err |-> "truncated packet header", off |-> base + pos]
    ELSE LET pt   == data[pos + 1]
             plen == uint24(SubSeq(data, pos + 2, pos + 4))
         IN  IF n - 4 < plen
             THEN [out |-> out, err |-> "truncated packet", off |-> base + pos + 4]
             ELSE ParsePacketsFrom(data, base, pos + 4 + plen,
                      Append(out, [Type |-> pt,
                                   Data |-> SubSeq(data, pos + 5, pos + 4 + plen)]))

ParsePackets(data, base) == ParsePacketsFrom(data, base, 0, <<>>)

\* ParseKeyring looking at the first byte before the length.
ParseKeyringMagicFirst(data) ==
    IF Len(data) >= 1 /\ data[1] # MagicByte
    THEN [Version |-> 0, Reserved |-> <<0, 0>>, Packets |-> <<>>,
          err |-> "invalid keyring: invalid header", off |-> 0]
    ELSE IF Len(data) < 4
    THEN [Version |-> 0, Reserved |-> <<0, 0>>, Packets |-> <<>>,
          err |-> "invalid keyring: header truncated", off |-> 0]
    ELSE LET pkt == ParsePackets(Tail4(data), 4) IN
         [Version |-> data[2], Reserved |-> <<data[3], data[4]>>,
          Packets |-> pkt.out, err |-> pkt.err, off |-> pkt.off]

\* ParseKeyring refusing a version other than FormatVersion.
ParseKeyringStrict(data) ==
    IF Len(data) < 4
    THEN [Version |-> 0, Reserved |-> <<0, 0>>, Packets |-> <<>>,
          err |-> "invalid keyring: header truncated", off |-> 0]
    ELSE IF data[1] # MagicByte \/ data[2] # FormatVersion
    THEN [Version |-> 0, Reserved |-> <<0, 0>>, Packets |-> <<>>,
          err |-> "invalid keyring: invalid header", off |-> 0]
    ELSE LET pkt == ParsePackets(Tail4(data), 4) IN
         [Version |-> data[2], Reserved |-> <<data[3], data[4]>>,
          Packets |-> pkt.out, err |-> pkt.err, off |-> pkt.off]

ParseKeyring(data) ==
    IF Len(data) < 4
    THEN [Version |-> 0, Reserved |-> <<0, 0>>, Packets |-> <<>>,
          err |-> "invalid keyring: header truncated", off |-> 0]
    ELSE IF data[1] # MagicByte
    THEN [Version |-> 0, Reserved |-> <<0, 0>>, Packets |-> <<>>,
          err |-> "invalid keyring: invalid header", off |-> 0]
    ELSE LET pkt == ParsePackets(Tail4(data), 4) IN
         [Version |-> data[2], Reserved |-> <<data[3], data[4]>>,
          Packets |-> pkt.out, err |-> pkt.err, off |-> pkt.off]

\* ParseKeyInfo without the check of the id.
ParseKeyInfoAnyID(data) ==
    IF Len(data) < 4 THEN [ID |-> 0, Key |-> <<>>, err |-> "key truncated"]
    ELSE [ID |-> Uint32(data), Key |-> Tail4(data), err |-> ""]

\* ParseKeyInfo taking the key from data[5:].
ParseKeyInfoShort(data) ==
    IF Len(data) < 4 THEN [ID |-> 0, Key |-> <<>>, err |-> "key truncated"]
    ELSE IF Uint32(data) = 0 THEN [ID |-> 0, Key |-> <<>>, err |-> "invalid key ID"]
    ELSE [ID |-> Uint32(data), Key |-> SubSeq(data, 6, Len(data)), err |-> ""]

ParseKeyInfo(data) ==
    IF Len(data) < 4 THEN [ID |-> 0, Key |-> <<>>, err |-> "key truncated"]
    ELSE IF Uint32(data) = 0 THEN [ID |-> 0, Key |-> <<>>, err |-> "invalid key ID"]
    ELSE [ID |-> Uint32(data), Key |-> Tail4(data), err |-> ""]

\* ParseActiveKey reporting no active key whatever the data.
ParseActiveKeyNone(data) == [id |-> 0, err |-> ""]

ParseActiveKey(data) ==
    IF Len(data) = 0 THEN [id |-> 0, err |-> ""]
    ELSE IF Len(data) # 4 THEN [id |-> 0, err |-> "wrong data length"]
    ELSE [id |-> Uint32(data), err |-> ""]

\* slices.BinarySearchFunc over keys[lo+1..hi] (Go indices lo..hi-1).
RECURSIVE BinarySearch(_, _, _, _)
BinarySearch(keys, id, lo, hi) ==
    IF lo < hi
    THEN LET h == (lo + hi) \div 2 IN
         IF keys[h + 1].ID < id
         THEN BinarySearch(keys, id, h + 1, hi)
         ELSE BinarySearch(keys, id, lo, h)
    ELSE lo

\* FindKey reporting position 0 for every id that is found.
FindKeyFirst(keys, id) ==
    LET pos == BinarySearch(keys, id, 0, Len(keys)) IN
    IF pos < Len(keys) /\ keys[pos + 1].ID = id THEN 0 ELSE -1

\* FindKey: the Go index of id in keys, or -1.
FindKey(keys, id) ==
    LET pos == BinarySearch(keys, id, 0, Len(keys)) IN
    IF pos < Len(keys) /\ keys[pos + 1].ID = id THEN pos ELSE -1

\* SortKeysByID leaving the keys in the order they have.
SortKeysByIDNone(keys) == keys

\* SortKeysByID
RECURSIVE SortKeysByID(_)
SortKeysByID(keys) ==
    IF Len(keys) <= 1 THEN keys
    ELSE LET m == CHOOSE i \in 1..Len(keys) :
                     \A j \in 1..Len(keys) :
                         keys[i].ID < keys[j].ID \/ (keys[i].ID = keys[j].ID /\ i <= j)
         IN  <<keys[m]>> \o
             SortKeysByID([j \in 1..(Len(keys) - 1) |->
                              IF j < m THEN keys[j] ELSE keys[j + 1]])

-----------------------------------------------------------------------------
(* Byte slices and their storage *)

NumAddr == 2 * MaxKeys + 3
Addr == 1..NumAddr

\* A nil or empty slice has no array.
NilSlice == [a |-> 0, n |-> 0]

\* The bytes a slice denotes.
Bytes(h, s) == IF s.a = 0 THEN <<>> ELSE SubSeq(h[s.a], 1, s.n)

NewAddr(h) == CHOOSE a \in Addr \ DOMAIN h : \A b \in Addr \ DOMAIN h : a <= b

\* make([]byte, len(data)) holding data.
Make(h, data) ==
    IF Len(data) = 0 THEN [s |-> NilSlice, h |-> h]
    ELSE LET a == NewAddr(h) IN
         [s |-> [a |-> a, n |-> Len(data)], h |-> h @@ (a :> data)]

\* bytes.Clone(s)
bytesClone(h, s) == Make(h, Bytes(h, s))

\* append(s, data...): in place when the capacity allows, else a new array.
goAppend(h, s, data) ==
    IF Len(data) = 0 THEN [s |-> s, h |-> h]
    ELSE IF s.a # 0 /\ s.n + Len(data) <= Len(h[s.a])
    THEN [s |-> [a |-> s.a, n |-> s.n + Len(data)],
          h |-> [h EXCEPT ![s.a] = [i \in 1..Len(@) |->
                    IF s.n < i /\ i <= s.n + Len(data) THEN data[i - s.n] ELSE @[i]]]]
    ELSE Make(h, Bytes(h, s) \o data)

\* clear(s)
clear(h, s) ==
    IF s.a = 0 THEN h
    ELSE [h EXCEPT ![s.a] = [i \in 1..Len(@) |-> IF i <= s.n THEN 0 ELSE @[i]]]

\* What the garbage collector keeps: the arrays in live.
Collect(h, live) == [a \in DOMAIN h \cap live |-> h[a]]

-----------------------------------------------------------------------------
(* View *)

RingView == 0
SnapView == 1
NilView == -1

ZeroView == [keys |-> <<>>, activeKey |-> 0]

\* KeyInfo.Clone
KeyInfoClone(h, ki) ==
    LET c == bytesClone(h, ki.Key) IN
    [ki |-> [ID |-> ki.ID, Key |-> c.s], h |-> c.h]

\* The loop of View.clone over v.keys[i..], cp built so far.
RECURSIVE cloneKeys(_, _, _, _)
cloneKeys(h, keys, i, cp) ==
    IF i > Len(keys) THEN [keys |-> cp, h |-> h]
    ELSE LET c == KeyInfoClone(h, keys[i]) IN
         cloneKeys(c.h, keys, i + 1, Append(cp, c.ki))

\* clone returning the receiver instead of a copy.
cloneSame(vs, h, a) == [ptr |-> a, vs |-> vs, h |-> h]

\* View.clone of the View at address a: a new View struct at SnapView.
clone(vs, h, a) ==
    LET cp == cloneKeys(h, vs[a].keys, 1, <<>>) IN
    [ptr |-> SnapView,
     vs  |-> [vs EXCEPT ![SnapView] = [keys |-> cp.keys, activeKey |-> vs[a].activeKey]],
     h   |-> cp.h]

ViewLen(v) == Len(v.keys)

\* Active returning the position of the active key instead of its id.
ViewActiveIndex(v) == v.activeKey

ViewActive(v) == v.keys[v.activeKey + 1].ID

ViewHas(v, id) == FindKey(v.keys, id) >= 0

\* Append returning buf as it is for an id that is not found.
ViewAppendQuiet(h, v, id, buf) ==
    LET pos == FindKey(v.keys, id) IN
    IF pos < 0 THEN [panic |-> FALSE, s |-> buf, h |-> h]
    ELSE LET r == goAppend(h, buf, Bytes(h, v.keys[pos + 1].Key)) IN
         [panic |-> FALSE, s |-> r.s, h |-> r.h]

\* Append returning the stored slice itself when buf is empty.
ViewAppendAlias(h, v, id, buf) ==
    LET pos == FindKey(v.keys, id) IN
    IF pos < 0 THEN [panic |-> TRUE, s |-> NilSlice, h |-> h]
    ELSE IF buf.n = 0 THEN [panic |-> FALSE, s |-> v.keys[pos + 1].Key, h |-> h]
    ELSE LET r == goAppend(h, buf, Bytes(h, v.keys[pos + 1].Key)) IN
         [panic |-> FALSE, s |-> r.s, h |-> r.h]

\* Append taking id 0 for the id of the active key.
ViewAppendZeroActive(h, v, id, buf) ==
    LET pos == IF id = 0 THEN v.activeKey ELSE FindKey(v.keys, id) IN
    IF pos < 0 THEN [panic |-> TRUE, s |-> NilSlice, h |-> h]
    ELSE LET r == goAppend(h, buf, Bytes(h, v.keys[pos + 1].Key)) IN
         [panic |-> FALSE, s |-> r.s, h |-> r.h]

ViewAppend(h, v, id, buf) ==
    LET pos == FindKey(v.keys, id) IN
    IF pos < 0 THEN [panic |-> TRUE, s |-> NilSlice, h |-> h]
    ELSE LET r == goAppend(h, buf, Bytes(h, v.keys[pos + 1].Key)) IN
         [panic |-> FALSE, s |-> r.s, h |-> r.h]

\* AppendActive returning the position of the active key instead of its id.
ViewAppendActivePos(h, v, buf) ==
    LET ki == v.keys[v.activeKey + 1]
        r  == goAppend(h, buf, Bytes(h, ki.Key))
    IN  [id |-> v.activeKey, s |-> r.s, h |-> r.h]

ViewAppendActive(h, v, buf) ==
    LET ki == v.keys[v.activeKey + 1]
        r  == goAppend(h, buf, Bytes(h, ki.Key))
    IN  [id |-> ki.ID, s |-> r.s, h |-> r.h]

ViewGet(h, v, id) == ViewAppend(h, v, id, NilSlice)

ViewGetActive(h, v) == ViewAppendActive(h, v, NilSlice)

\* SingleKeyView(key): a View of one key, with id 1, holding a copy of key.
SingleKeyView(h, key) ==
    IF key.n = 0 THEN [panic |-> TRUE, v |-> ZeroView, h |-> h]
    ELSE LET c == bytesClone(h, key) IN
         [panic |-> FALSE,
          v     |-> [keys |-> <<[ID |-> 1, Key |-> c.s]>>, activeKey |-> 0],
          h     |-> c.h]

-----------------------------------------------------------------------------
(* Ring *)

AccessKeyLen == KeyLen

\* GenerateKey(keyBytes): rnd is the byte crand.Read filled the key with.
GenerateKey(keyBytes, rnd) == Fill(keyBytes, rnd)

\* GenerateAndEncryptKey returning another key than the one it encrypted.
GenerateAndEncryptKeyOther(accessKey, n, rnd, nonce) ==
    LET pkey == GenerateKey(n, rnd)
        e    == EncryptWithKey(accessKey, pkey, <<>>, nonce)
    IN  IF e.err # ""
        THEN [plain |-> <<>>, encrypted |-> <<>>, err |-> "encrypt key"]
        ELSE [plain |-> GenerateKey(n, (rnd + 1) % 256), encrypted |-> e.out, err |-> ""]

GenerateAndEncryptKey(accessKey, n, rnd, nonce) ==
    LET pkey == GenerateKey(n, rnd)
        e    == EncryptWithKey(accessKey, pkey, <<>>, nonce)
    IN  IF e.err # ""
        THEN [plain |-> <<>>, encrypted |-> <<>>, err |-> "encrypt key"]
        ELSE [plain |-> pkey, encrypted |-> e.out, err |-> ""]

\* StaticKey(key) and the call of an AccessKeyFunc on the stored salt.
StaticKey(key) == [kind |-> "static", key |-> key]

\* hkdf.Key(sha3.New256, passphrase, salt, "", n): n bytes fixed by the
\* passphrase and the salt, different for the different inputs used here.
RECURSIVE SumBytes(_)
SumBytes(b) == IF b = <<>> THEN 0 ELSE b[1] + SumBytes(Tail(b))

hkdfKey(passphrase, salt, n) ==
    Fill(n, (7 * SumBytes(passphrase) + SumBytes(salt)) % 256)

\* HKDF(passphrase): the function deriving the key from the salt it is given.
HKDF(passphrase) == [kind |-> "hkdf", passphrase |-> passphrase]

\* The mutant of CallAccessKeyFunc: HKDF derives without the salt.
CallAccessKeyFuncNoSalt(fn, salt) ==
    IF fn.kind = "static" THEN fn.key
    ELSE hkdfKey(fn.passphrase, <<>>, AccessKeyLen)

CallAccessKeyFunc(fn, salt) ==
    IF fn.kind = "static" THEN fn.key
    ELSE hkdfKey(fn.passphrase, salt, AccessKeyLen)

\* AccessKeyFromPassphrase(passphrase), crand.Read filling the salt with rnd.
AccessKeyFromPassphrase(passphrase, rnd) ==
    LET salt == Fill(32, rnd)
    IN  [key |-> hkdfKey(passphrase, salt, AccessKeyLen), salt |-> salt]

\* addBytes putting the new entry in front of the others.
addBytesFront(r, v, data) ==
    LET maxID == r.maxID + 1
        keys  == <<[ID |-> maxID, Key |-> data]>> \o v.keys
    IN  [r  |-> [r EXCEPT !.maxID = maxID],
         v  |-> [v EXCEPT !.keys = keys],
         id |-> maxID]

\* addBytes that does not store the incremented maxID.
addBytesNoCount(r, v, data) ==
    LET maxID == r.maxID + 1
        keys  == Append(v.keys, [ID |-> maxID, Key |-> data])
    IN  [r |-> r, v |-> [v EXCEPT !.keys = keys], id |-> maxID]

\* addBytes returning the id at position 0 instead of the new entry's.
addBytesFirst(r, v, data) ==
    LET maxID == r.maxID + 1
        keys  == Append(v.keys, [ID |-> maxID, Key |-> data])
    IN  [r  |-> [r EXCEPT !.maxID = maxID],
         v  |-> [v EXCEPT !.keys = keys],
         id |-> keys[1].ID]

\* addBytes storing the new entry over the last one.
addBytesOver(r, v, data) ==
    LET maxID == r.maxID + 1
        pos   == Len(v.keys)
        keys  == IF pos = 0 THEN <<[ID |-> maxID, Key |-> data]>>
                 ELSE [v.keys EXCEPT ![pos] = [ID |-> maxID, Key |-> data]]
    IN  [r  |-> [r EXCEPT !.maxID = maxID],
         v  |-> [v EXCEPT !.keys = keys],
         id |-> maxID]

\* Ring.addBytes: r is the Ring struct, v its view, data the slice stored.
addBytes(r, v, data) ==
    LET maxID == r.maxID + 1
        pos   == Len(v.keys)
        keys  == Append(v.keys, [ID |-> maxID, Key |-> data])
    IN  [r  |-> [r EXCEPT !.maxID = maxID],
         v  |-> [v EXCEPT !.keys = keys],
         id |-> keys[pos + 1].ID]

\* New without the check of InitialKey.
NewUnchecked(h, cfg, rnd, nonce) ==
    IF Len(cfg.AccessKey) # AccessKeyLen
    THEN [err |-> "access key has the wrong length", r |-> <<>>, v |-> ZeroView, h |-> h]
    ELSE LET e == GenerateAndEncryptKey(cfg.AccessKey, AccessKeyLen, rnd, nonce)
             c == bytesClone(h, cfg.InitialKey)
             a == addBytes([formatVersion |-> FormatVersion,
                            reserved      |-> <<0, 0>>,
                            accessKeySalt |-> cfg.AccessKeySalt,
                            dkEncrypted   |-> e.encrypted,
                            dkPlaintext   |-> e.plain,
                            maxID         |-> 0],
                           ZeroView, c.s)
         IN  [err |-> "", r |-> <<a.r>>, v |-> a.v, h |-> c.h]

\* New(Config{InitialKey, AccessKey, AccessKeySalt}); rnd and nonce are the
\* random data key and the nonce it is wrapped with.
New(h, cfg, rnd, nonce) ==
    IF Len(cfg.AccessKey) # AccessKeyLen
    THEN [err |-> "access key has the wrong length", r |-> <<>>, v |-> ZeroView, h |-> h]
    ELSE IF cfg.InitialKey.n = 0
    THEN [err |-> "initial key is empty", r |-> <<>>, v |-> ZeroView, h |-> h]
    ELSE LET e == GenerateAndEncryptKey(cfg.AccessKey, AccessKeyLen, rnd, nonce)
             c == bytesClone(h, cfg.InitialKey)
             a == addBytes([formatVersion |-> FormatVersion,
                            reserved      |-> <<0, 0>>,
                            accessKeySalt |-> cfg.AccessKeySalt,
                            dkEncrypted   |-> e.encrypted,
                            dkPlaintext   |-> e.plain,
                            maxID         |-> 0],
                           ZeroView, c.s)
         IN  IF e.err # ""
             THEN [err |-> e.err, r |-> <<>>, v |-> ZeroView, h |-> h]
             ELSE [err |-> "", r |-> <<a.r>>, v |-> a.v, h |-> c.h]

\* Add storing the caller's slice.
AddNoClone(h, r, v, key) ==
    IF key.n = 0
    THEN [panic |-> TRUE, r |-> r, v |-> v, h |-> h, id |-> 0]
    ELSE LET a == addBytes(r, v, key)
         IN  [panic |-> FALSE, r |-> a.r, v |-> a.v, h |-> h, id |-> a.id]

\* Ring.Add(key)
Add(h, r, v, key) ==
    IF key.n = 0
    THEN [panic |-> TRUE, r |-> r, v |-> v, h |-> h, id |-> 0]
    ELSE LET c == bytesClone(h, key)
             a == addBytes(r, v, c.s)
         IN  [panic |-> FALSE, r |-> a.r, v |-> a.v, h |-> c.h, id |-> a.id]

\* AddRandom that leaves the check of n to make(): a negative length panics
\* there, a zero length does not.
AddRandomUnchecked(h, r, v, n, rnd) ==
    IF n < 0 THEN [panic |-> TRUE, r |-> r, v |-> v, h |-> h, id |-> 0]
    ELSE LET k == Make(h, GenerateKey(n, rnd))
             a == addBytes(r, v, k.s)
         IN  [panic |-> FALSE, r |-> a.r, v |-> a.v, h |-> k.h, id |-> a.id]

\* Ring.AddRandom(n)
AddRandom(h, r, v, n, rnd) ==
    IF n <= 0
    THEN [panic |-> TRUE, r |-> r, v |-> v, h |-> h, id |-> 0]
    ELSE LET k == Make(h, GenerateKey(n, rnd))
             a == addBytes(r, v, k.s)
         IN  [panic |-> FALSE, r |-> a.r, v |-> a.v, h |-> k.h, id |-> a.id]

\* Ring.Activate(id)
Activate(v, id) ==
    LET pos == FindKey(v.keys, id) IN
    IF pos < 0 THEN [panic |-> TRUE, v |-> v]
    ELSE [panic |-> FALSE, v |-> [v EXCEPT !.activeKey = pos]]

\* Rekey storing the new salt before it checks the new access key.
RekeySaltFirst(r, newAccessKey, newSalt, nonce) ==
    LET e  == EncryptWithKey(newAccessKey, r.dkPlaintext, <<>>, nonce)
        r1 == [r EXCEPT !.accessKeySalt = IF newSalt = <<>> THEN @ ELSE newSalt[1]]
    IN  IF Len(newAccessKey) # AccessKeyLen \/ e.err # ""
        THEN [err |-> "access key has the wrong length", r |-> r1]
        ELSE [err |-> "", r |-> [r1 EXCEPT !.dkEncrypted = e.out]]

\* Rekey that keeps the salt it has.
RekeyKeepsSalt(r, newAccessKey, newSalt, nonce) ==
    LET e == EncryptWithKey(newAccessKey, r.dkPlaintext, <<>>, nonce) IN
    IF Len(newAccessKey) # AccessKeyLen \/ e.err # ""
    THEN [err |-> "access key has the wrong length", r |-> r]
    ELSE [err |-> "", r |-> [r EXCEPT !.dkEncrypted = e.out]]

\* Rekey making a new data key instead of wrapping the one it has.
RekeyNewDataKey(r, newAccessKey, newSalt, nonce) ==
    LET e == GenerateAndEncryptKey(newAccessKey, AccessKeyLen, 21, nonce) IN
    IF Len(newAccessKey) # AccessKeyLen
    THEN [err |-> "access key has the wrong length", r |-> r]
    ELSE IF e.err # "" THEN [err |-> e.err, r |-> r]
    ELSE [err |-> "",
          r   |-> [r EXCEPT !.dkEncrypted = e.encrypted,
                            !.dkPlaintext = e.plain,
                            !.accessKeySalt = IF newSalt = <<>> THEN @ ELSE newSalt[1]]]

\* Ring.Rekey(newAccessKey, newSalt): newSalt is <<>> when omitted, else <<salt>>.
Rekey(r, newAccessKey, newSalt, nonce) ==
    LET e == EncryptWithKey(newAccessKey, r.dkPlaintext, <<>>, nonce) IN
    IF Len(newAccessKey) # AccessKeyLen
    THEN [err |-> "access key has the wrong length", r |-> r]
    ELSE IF e.err # "" THEN [err |-> e.err, r |-> r]
    ELSE [err |-> "",
          r   |-> [r EXCEPT !.dkEncrypted = e.out,
                            !.accessKeySalt = IF newSalt = <<>> THEN @ ELSE newSalt[1]]]

\* The packets of the bundle: the active id, then the entries v.keys[i..].
RECURSIVE addEntries(_, _, _, _)
addEntries(p, h, keys, i) ==
    IF i > Len(keys) THEN p
    ELSE addEntries(AddKeyringEntry(p, keys[i].ID, Bytes(h, keys[i].Key)), h, keys, i + 1)

\* Ring.WriteTo(w): the bytes written and their count.
WriteTo(h, r, v, nonce) ==
    LET inner  == addEntries(AddActiveKey(<<>>, ViewActive(v)), h, v.keys, 1)
        e      == EncryptWithKey(r.dkPlaintext, inner, <<>>, nonce)
        hdr    == WriteHeader(<<>>, r.formatVersion, r.reserved)
        p1     == AddPacket(hdr, AccessKeySaltType, r.accessKeySalt)
        p2     == AddPacket(p1, DataKeyType, r.dkEncrypted)
        p3     == AddPacket(p2, BundleType, e.out)
    IN  IF e.err # "" THEN [nw |-> 0, out |-> <<>>, err |-> e.err]
        ELSE [nw |-> Len(p3), out |-> p3, err |-> ""]

ReadFail(msg) == [err |-> msg, ring |-> <<>>]

MaxOf(S) == IF S = {} THEN 0 ELSE CHOOSE m \in S : \A x \in S : x <= m

\* The Ring made from the opened bundle's packets.
ReadBundle(kr, salt, dkEnc, dk, inner) ==
    LET ents    == SelectSeq(inner, LAMBDA p : p.Type = KeyringEntryType)
        acts    == SelectSeq(inner, LAMBDA p : p.Type = ActiveKeyType)
        infos   == [i \in 1..Len(ents) |-> ParseKeyInfo(ents[i].Data)]
        act     == IF Len(acts) = 0 THEN [id |-> 0, err |-> ""]
                   ELSE ParseActiveKey(acts[1].Data)
        keys    == SortKeysByID([i \in 1..Len(infos) |->
                                    [ID |-> infos[i].ID, Key |-> infos[i].Key]])
        pos     == FindKey(keys, act.id)
        present == Len(acts) > 0 /\ Len(acts[1].Data) > 0
    IN  IF \E i \in 1..Len(infos) : infos[i].err # ""
        THEN ReadFail("invalid keyring entry")
        ELSE IF act.err # "" THEN ReadFail("invalid active key")
        ELSE IF \E i, j \in 1..Len(infos) : i < j /\ infos[i].ID = infos[j].ID
        THEN ReadFail("duplicate key id")
        ELSE IF present /\ pos < 0 THEN ReadFail("active key not found")
        ELSE [err  |-> "",
              ring |-> <<[formatVersion |-> kr.Version,
                          reserved      |-> kr.Reserved,
                          accessKeySalt |-> salt,
                          dkEncrypted   |-> dkEnc,
                          dkPlaintext   |-> dk,
                          keys          |-> keys,
                          activeKey     |-> IF pos < 0 THEN 0 ELSE pos,
                          maxID         |-> MaxOf({keys[i].ID : i \in 1..Len(keys)})]>>]

\* The container opened with the access key ak made for its salt.
ReadOpen(kr, salt, dkEnc, bundle, ak) ==
    LET dk == DecryptWithKey(ak, dkEnc, <<>>) IN
    IF dk.err # "" THEN ReadFail(dk.err)
    ELSE LET b == DecryptWithKey(dk.data, bundle, <<>>) IN
         IF b.err # "" THEN ReadFail(b.err)
         ELSE LET inner == ParsePackets(b.data, 0) IN
              IF inner.err # "" THEN ReadFail(inner.err)
              ELSE ReadBundle(kr, salt, dkEnc, dk.data, inner.out)

\* Read(r, accessKey): data is what io.ReadAll(r) gives.  The Ring returned
\* holds its own copies of the key bytes, given here by value; salts are the
\* arguments accessKey was called with.
Read(data, accessKey) ==
    LET kr      == ParseKeyring(data)
        salts   == SelectSeq(kr.Packets, LAMBDA p : p.Type = AccessKeySaltType)
        dks     == SelectSeq(kr.Packets, LAMBDA p : p.Type = DataKeyType)
        bundles == SelectSeq(kr.Packets, LAMBDA p : p.Type = BundleType)
        fail(m) == [err |-> m, ring |-> <<>>, salts |-> <<>>]
    IN  IF kr.err # "" THEN fail(kr.err)
        ELSE IF kr.Version # FormatVersion THEN fail("unknown format version")
        ELSE IF Len(dks) = 0 \/ Len(bundles) = 0 THEN fail("missing packet")
        ELSE LET salt == IF Len(salts) = 0 THEN <<>> ELSE salts[1].Data
                 ak   == CallAccessKeyFunc(accessKey, salt)
                 res  == ReadOpen(kr, salt, dks[1].Data, bundles[1].Data, ak)
             IN  [err |-> res.err, ring |-> res.ring, salts |-> <<salt>>]

\* The Ring's read accessors are those of its view.
RingLen(v) == ViewLen(v)
RingActive(v) == ViewActive(v)
RingHas(v, id) == ViewHas(v, id)
RingAppend(h, v, id, buf) == ViewAppend(h, v, id, buf)
RingAppendActive(h, v, buf) == ViewAppendActive(h, v, buf)
RingGet(h, v, id) == RingAppend(h, v, id, NilSlice)
RingGetActive(h, v) == RingAppendActive(h, v, NilSlice)

-----------------------------------------------------------------------------
(* The inputs of the calls *)

KeyBytes == {<<1>>, <<2, 3>>}
AddedKey == <<4, 5, 6>>
AccessKey0 == Fill(KeyLen, 10)
AccessKey1 == Fill(KeyLen, 11)
AccessKeys == {AccessKey0, AccessKey1}
BadAccessKeys == {<<>>, Fill(12, 10)}
Salt0 == <<7>>
Salt1 == <<8>>
RandomByte == 20
Nonce0 == Fill(NonceSize, 30)
Nonce1 == Fill(NonceSize, 31)
Ids == 0..(MaxKeys + 1)

-----------------------------------------------------------------------------
(* What a caller can observe of a View or Ring through Len, Active, Has, Get *)

Obs(h, v) ==
    LET has == {id \in Ids : ViewHas(v, id)} IN
    [len    |-> ViewLen(v),
     active |-> IF ViewLen(v) = 0 THEN 0 ELSE ViewActive(v),
     has    |-> has,
     key    |-> [id \in has |-> Bytes(ViewGet(h, v, id).h, ViewGet(h, v, id).s)]]

\* The Ring struct and view of a Ring returned by Read, its keys in storage.
RECURSIVE installKeys(_, _, _, _)
installKeys(h, keys, i, out) ==
    IF i > Len(keys) THEN [keys |-> out, h |-> h]
    ELSE LET m == Make(h, keys[i].Key) IN
         installKeys(m.h, keys, i + 1, Append(out, [ID |-> keys[i].ID, Key |-> m.s]))

Install(h, rv) ==
    LET k == installKeys(h, rv.keys, 1, <<>>) IN
    [r |-> [formatVersion |-> rv.formatVersion,
            reserved      |-> rv.reserved,
            accessKeySalt |-> rv.accessKeySalt,
            dkEncrypted   |-> rv.dkEncrypted,
            dkPlaintext   |-> rv.dkPlaintext,
            maxID         |-> rv.maxID],
     v |-> [keys |-> k.keys, activeKey |-> rv.activeKey],
     h |-> k.h]

EmptyHeap == [a \in {} |-> <<>>]

ObsRead(rv) == LET i == Install(EmptyHeap, rv) IN Obs(i.h, i.v)

-----------------------------------------------------------------------------
(* State *)

KeyAddrs(v) == {v.keys[i].Key.a : i \in 1..Len(v.keys)}

LiveAddrs(vs, p, in, out) ==
    ({in.a, out.a} \cup KeyAddrs(vs[RingView])
        \cup (IF p = NilView THEN {} ELSE KeyAddrs(vs[p]))) \ {0}

\* The addresses the caller's roots hold, in the order ring keys, view keys,
\* inBuf, outBuf.
KeySeq(v) == [i \in 1..Len(v.keys) |-> v.keys[i].Key.a]

RootSeq(vs, p, in, out) ==
    KeySeq(vs[RingView]) \o (IF p = SnapView THEN KeySeq(vs[p]) ELSE <<>>) \o <<in.a, out.a>>

\* The garbage collector at the end of a call: the arrays no root reaches are
\* freed and the others are numbered in the order the roots reach them (an
\* address is nothing the program can observe).
GC(vs, p, in, out, h) ==
    LET R      == RootSeq(vs, p, in, out)
        keep   == {i \in 1..Len(R) : R[i] # 0 /\ \A j \in 1..(i - 1) : R[j] # R[i]}
        rankOf == [i \in keep |-> Cardinality({j \in keep : j <= i})]
        to     == [a \in {R[i] : i \in keep} |-> rankOf[CHOOSE i \in keep : R[i] = a]]
        from   == [b \in 1..Cardinality(keep) |-> R[CHOOSE i \in keep : rankOf[i] = b]]
        mv(s)  == IF s.a = 0 THEN s ELSE [a |-> to[s.a], n |-> s.n]
        mvView(v) == [keys |-> [i \in 1..Len(v.keys) |->
                                  [ID |-> v.keys[i].ID, Key |-> mv(v.keys[i].Key)]],
                      activeKey |-> v.activeKey]
    IN  [views  |-> [a \in DOMAIN vs |->
                        IF a = SnapView /\ p # SnapView THEN ZeroView ELSE mvView(vs[a])],
         inBuf  |-> mv(in),
         outBuf |-> mv(out),
         heap   |-> [b \in DOMAIN from |-> h[from[b]]]]

\* What a call returned; arg is what it was called with, pre what the
\* properties of this call need of the state it was made in.
Ret(op, arg, val, err) ==
    [op |-> op, arg |-> arg, val |-> val, err |-> err, ring |-> <<>>, pre |-> <<>>]

NoFn == [x \in {} |-> <<>>]

Init ==
    /\ ring = <<>>
    /\ views = [a \in {RingView, SnapView} |-> ZeroView]
    /\ heap = EmptyHeap
    /\ vp = NilView
    /\ inBuf = NilSlice
    /\ outBuf = NilSlice
    /\ file = <<>>
    /\ ret = Ret("", <<>>, 0, "")
    /\ g = [ak |-> <<>>, want |-> NoFn, src |-> <<>>, rsrc |-> <<>>, snap |-> <<>>]

\* g after a call other than Read: the result of an earlier Read is gone.
Drop(h) == [h EXCEPT !.rsrc = <<>>]

\* r, err := New(Config{InitialKey: b, AccessKey: ak, AccessKeySalt: salt}),
\* b a buffer of the caller holding c, which the caller keeps when keep.
CallNew(ak, salt, c, rnd, nonce, keep) ==
    /\ ring = <<>>
    /\ LET h0  == Collect(heap, LiveAddrs(views, vp, NilSlice, NilSlice))
           b   == Make(h0, c)
           res == New(b.h, [InitialKey |-> b.s, AccessKey |-> ak, AccessKeySalt |-> salt],
                      rnd, nonce)
           in1 == IF keep THEN b.s ELSE NilSlice
           st  == GC([views EXCEPT ![RingView] = res.v], vp, in1, NilSlice, res.h)
       IN  /\ ring' = res.r
           /\ views' = st.views /\ inBuf' = st.inBuf /\ outBuf' = st.outBuf
           /\ heap' = st.heap
           /\ ret' = Ret("New", <<ak, c>>, 0, res.err)
           /\ g' = IF res.err = ""
                   THEN [Drop(g) EXCEPT !.ak = ak, !.want = (1 :> c)]
                   ELSE Drop(g)
    /\ UNCHANGED <<vp, file>>

\* id := r.Add(b)
CallAdd(c, keep) ==
    /\ ring # <<>> /\ file = <<>>
    /\ Len(views[RingView].keys) < MaxKeys
    /\ LET h0  == Collect(heap, LiveAddrs(views, vp, NilSlice, NilSlice))
           b   == Make(h0, c)
           res == Add(b.h, ring[1], views[RingView], b.s)
           in1 == IF keep THEN b.s ELSE NilSlice
           st  == GC([views EXCEPT ![RingView] = res.v], vp, in1, NilSlice, res.h)
       IN  /\ ring' = <<res.r>>
           /\ views' = st.views /\ inBuf' = st.inBuf /\ outBuf' = st.outBuf
           /\ heap' = st.heap
           /\ ret' = [Ret("Add", <<c>>, res.id, IF res.panic THEN "panic" ELSE "")
                        EXCEPT !.pre = <<ret.op = "Reopen">>]
           /\ g' = IF res.panic THEN Drop(g)
                   ELSE [Drop(g) EXCEPT !.want = (res.id :> c) @@ @]
    /\ UNCHANGED <<vp, file>>

\* id := r.AddRandom(n)
CallAddRandom(n, rnd) ==
    /\ ring # <<>> /\ file = <<>>
    /\ Len(views[RingView].keys) < MaxKeys
    /\ LET res == AddRandom(heap, ring[1], views[RingView], n, rnd)
           st  == GC([views EXCEPT ![RingView] = res.v], vp, NilSlice, NilSlice, res.h)
       IN  /\ ring' = <<res.r>>
           /\ views' = st.views /\ inBuf' = st.inBuf /\ outBuf' = st.outBuf
           /\ heap' = st.heap
           /\ ret' = [Ret("AddRandom", <<n>>, res.id, IF res.panic THEN "panic" ELSE "")
                        EXCEPT !.pre = <<ret.op = "Reopen">>]
           /\ g' = IF res.panic THEN Drop(g)
                   ELSE [Drop(g) EXCEPT !.want = (res.id :> GenerateKey(n, rnd)) @@ @]
    /\ UNCHANGED <<vp, file>>

\* r.Activate(id)
CallActivate(id) ==
    /\ ring # <<>> /\ file = <<>>
    /\ LET res == Activate(views[RingView], id)
           st  == GC([views EXCEPT ![RingView] = res.v], vp, NilSlice, NilSlice, heap)
       IN  /\ views' = st.views /\ inBuf' = st.inBuf /\ outBuf' = st.outBuf
           /\ heap' = st.heap
           /\ ret' = Ret("Activate", <<id>>, 0, IF res.panic THEN "panic" ELSE "")
           /\ g' = Drop(g)
    /\ UNCHANGED <<ring, vp, file>>

\* err := r.Rekey(newAccessKey, newSalt)
CallRekey(newAccessKey, newSalt, nonce) ==
    /\ ring # <<>> /\ file = <<>>
    /\ LET res == Rekey(ring[1], newAccessKey, newSalt, nonce)
           st  == GC(views, vp, NilSlice, NilSlice, heap)
       IN
       /\ ring' = <<res.r>>
       /\ views' = st.views /\ inBuf' = st.inBuf /\ outBuf' = st.outBuf
       /\ heap' = st.heap
       /\ ret' = [Ret("Rekey", <<newAccessKey, newSalt>>, 0, res.err)
                    EXCEPT !.pre = <<[old |-> g.ak, obs |-> Obs(heap, views[RingView])]>>]
       /\ g' = IF res.err # "" THEN Drop(g) ELSE [Drop(g) EXCEPT !.ak = newAccessKey]
    /\ UNCHANGED <<vp, file>>

\* nw, err := r.WriteTo(&buf)
CallWriteTo(nonce) ==
    /\ ring # <<>>
    /\ LET w == WriteTo(heap, ring[1], views[RingView], nonce) IN
       /\ file' = w.out
       /\ ret' = Ret("WriteTo", <<>>, w.nw, w.err)
       /\ g' = [Drop(g) EXCEPT !.src = <<[ak  |-> g.ak,
                                          rk  |-> IF ret.op = "Rekey" /\ ret.err = ""
                                                  THEN ret.pre ELSE <<>>,
                                          obs |-> Obs(heap, views[RingView])]>>]
    /\ UNCHANGED <<ring, views, heap, vp, inBuf, outBuf>>

\* r2, err := Read(&buf, StaticKey(key)); the reader is drained.
CallRead(key) ==
    /\ file # <<>>
    /\ LET res == Read(file, StaticKey(key)) IN
       /\ ret' = [Ret("Read", <<key>>, 0, res.err)
                    EXCEPT !.ring = res.ring, !.pre = res.salts]
       /\ g' = [g EXCEPT !.rsrc = g.src, !.src = <<>>]
    /\ file' = <<>>
    /\ UNCHANGED <<ring, views, heap, vp, inBuf, outBuf>>

\* r = r2: the caller goes on with the Ring it read.
Reopen ==
    /\ ret.op = "Read" /\ ret.err = "" /\ ret.ring # <<>>
    /\ LET vs0 == [views EXCEPT ![RingView] = ZeroView]
           h0  == Collect(heap, LiveAddrs(vs0, vp, NilSlice, NilSlice))
           i   == Install(h0, ret.ring[1])
           st  == GC([views EXCEPT ![RingView] = i.v], vp, NilSlice, NilSlice, i.h)
       IN  /\ ring' = <<i.r>>
           /\ views' = st.views /\ inBuf' = st.inBuf /\ outBuf' = st.outBuf
           /\ heap' = st.heap
           /\ g' = [Drop(g) EXCEPT !.ak = ret.arg[1], !.want = ObsRead(ret.ring[1]).key]
    /\ ret' = Ret("Reopen", <<>>, 0, "")
    /\ UNCHANGED <<vp, file>>

\* The ring's life: created, changed, written to a buffer and read back.  The
\* caller reads a buffer it has written before it changes the ring again.
Next ==
    \/ \E ak \in {AccessKey0} \cup BadAccessKeys, c \in KeyBytes \cup {<<>>} :
            CallNew(ak, Salt0, c, RandomByte, Nonce0, FALSE)
    \/ \E c \in {AddedKey, <<>>} : CallAdd(c, FALSE)
    \/ \E n \in {2, 0, -1} : CallAddRandom(n, RandomByte)
    \/ \E id \in Ids : CallActivate(id)
    \/ \E k \in AccessKeys \cup {Fill(12, 10)}, salt \in {<<>>, <<Salt1>>} :
            CallRekey(k, salt, Nonce1)
    \/ CallWriteTo(Nonce1)
    \/ \E k \in AccessKeys \cup {Fill(12, 10)} : CallRead(k)
    \/ Reopen

Spec == Init /\ [][Next]_vars

-----------------------------------------------------------------------------
(* The caller's buffers and views *)

\* v := r.View()
CallView ==
    /\ ring # <<>>
    /\ LET h0  == Collect(heap, LiveAddrs(views, NilView, NilSlice, NilSlice))
           res == clone(views, h0, RingView)
           st  == GC(res.vs, res.ptr, NilSlice, NilSlice, res.h)
       IN  /\ vp' = res.ptr
           /\ views' = st.views /\ inBuf' = st.inBuf /\ outBuf' = st.outBuf
           /\ heap' = st.heap
           /\ g' = [Drop(g) EXCEPT !.snap = <<Obs(heap, views[RingView])>>]
    /\ ret' = Ret("View", <<>>, 0, "")
    /\ UNCHANGED <<ring, file>>

\* v := SingleKeyView(b), b a buffer of the caller holding c; v takes the place
\* of the View the caller held.
CallSingleKeyView(c) ==
    /\ LET h0  == Collect(heap, LiveAddrs(views, NilView, NilSlice, NilSlice))
           b   == Make(h0, c)
           res == SingleKeyView(b.h, b.s)
           st  == GC([views EXCEPT ![SnapView] = res.v], SnapView, NilSlice, NilSlice, res.h)
       IN  IF res.panic
           THEN /\ UNCHANGED <<vp, views, heap, inBuf, outBuf>>
                /\ g' = Drop(g)
           ELSE /\ vp' = SnapView
                /\ views' = st.views /\ inBuf' = st.inBuf /\ outBuf' = st.outBuf
                /\ heap' = st.heap
                /\ g' = [Drop(g) EXCEPT !.snap = <<Obs(res.h, res.v)>>]
    /\ ret' = Ret("SingleKeyView", <<c>>, 0,
                  IF Len(c) = 0 THEN "panic" ELSE "")
    /\ UNCHANGED <<ring, file>>

\* The Views the caller can call: the Ring's and the one r.View() gave.
Targets == {RingView} \cup (IF vp = NilView THEN {} ELSE {vp})

\* The buffer passed to Append: nil, or the one held, emptied (outBuf[:0]).
AppendBuf(reuse) == IF reuse THEN [a |-> outBuf.a, n |-> 0] ELSE NilSlice

\* outBuf = t.Append(id, buf), t the Ring or the View; Get when buf is nil.
CallAppend(t, id, reuse) ==
    /\ ring # <<>> /\ t \in Targets
    /\ reuse => outBuf.a # 0
    /\ LET res  == IF t = RingView
                   THEN RingAppend(heap, views[t], id, AppendBuf(reuse))
                   ELSE ViewAppend(heap, views[t], id, AppendBuf(reuse))
           st   == GC(views, vp, NilSlice, IF res.panic THEN outBuf ELSE res.s, res.h)
       IN  /\ views' = st.views /\ inBuf' = st.inBuf /\ outBuf' = st.outBuf
           /\ heap' = st.heap
           /\ ret' = Ret("Append", <<t, id>>, 0, IF res.panic THEN "panic" ELSE "")
           /\ g' = Drop(g)
    /\ UNCHANGED <<ring, vp, file>>

\* id, outBuf = t.AppendActive(buf); GetActive when buf is nil.
CallAppendActive(t, reuse) ==
    /\ ring # <<>> /\ t \in Targets
    /\ reuse => outBuf.a # 0
    /\ LET res == IF t = RingView
                  THEN RingAppendActive(heap, views[t], AppendBuf(reuse))
                  ELSE ViewAppendActive(heap, views[t], AppendBuf(reuse))
           st  == GC(views, vp, NilSlice, res.s, res.h)
       IN  /\ views' = st.views /\ inBuf' = st.inBuf /\ outBuf' = st.outBuf
           /\ heap' = st.heap
           /\ ret' = Ret("AppendActive", <<t>>, res.id, "")
           /\ g' = Drop(g)
    /\ UNCHANGED <<ring, vp, file>>

\* clear(b), b the buffer just passed to New or Add; the caller then drops it.
ClearIn ==
    /\ inBuf.a # 0
    /\ LET st == GC(views, vp, NilSlice, NilSlice, clear(heap, inBuf)) IN
       /\ views' = st.views /\ inBuf' = st.inBuf /\ outBuf' = st.outBuf
       /\ heap' = st.heap
    /\ ret' = [Ret("ClearIn", <<>>, 0, "") EXCEPT !.pre = <<ret.op>>]
    /\ g' = Drop(g)
    /\ UNCHANGED <<ring, vp, file>>

\* clear(b), b the slice Get or Append just returned from the Ring or the View
\* (ret.arg[1]); the caller then drops it.
ClearOut ==
    /\ outBuf.a # 0
    /\ LET st == GC(views, vp, NilSlice, NilSlice, clear(heap, outBuf)) IN
       /\ views' = st.views /\ inBuf' = st.inBuf /\ outBuf' = st.outBuf
       /\ heap' = st.heap
    /\ ret' = [Ret("ClearOut", <<>>, 0, "") EXCEPT !.pre = <<ret.arg[1]>>]
    /\ g' = Drop(g)
    /\ UNCHANGED <<ring, vp, file>>

\* The caller lets go of its View.
DropView ==
    /\ vp # NilView
    /\ vp' = NilView
    /\ LET st == GC([views EXCEPT ![SnapView] = ZeroView], NilView, NilSlice, NilSlice, heap) IN
       /\ views' = st.views /\ inBuf' = st.inBuf /\ outBuf' = st.outBuf
       /\ heap' = st.heap
    /\ ret' = Ret("DropView", <<>>, 0, "")
    /\ g' = [Drop(g) EXCEPT !.snap = <<>>]
    /\ UNCHANGED <<ring, file>>

\* The ring in memory: the caller keeps the buffers it passes in and gets
\* back and overwrites them.  It changes the ring while it holds no View.
NextMem ==
    \/ CallNew(AccessKey0, Salt0, <<2, 3>>, RandomByte, Nonce0, TRUE)
    \/ vp = NilView /\ CallAdd(AddedKey, TRUE)
    \/ vp = NilView /\ CallAddRandom(2, RandomByte)
    \/ \E id \in Ids : vp = NilView /\ CallActivate(id)
    \/ CallView
    \/ DropView
    \/ \E t \in {RingView, SnapView}, id \in Ids, reuse \in BOOLEAN : CallAppend(t, id, reuse)
    \/ \E t \in {RingView, SnapView}, reuse \in BOOLEAN : CallAppendActive(t, reuse)
    \/ ClearIn
    \/ ClearOut

SpecMem == Init /\ [][NextMem]_vars

\* The ring and a View of it: the caller goes on changing the ring.
NextView ==
    \/ CallNew(AccessKey0, Salt0, <<2, 3>>, RandomByte, Nonce0, FALSE)
    \/ CallAdd(AddedKey, FALSE)
    \/ CallAddRandom(2, RandomByte)
    \/ \E id \in Ids : RingHas(views[RingView], id) /\ CallActivate(id)
    \/ CallRekey(AccessKey1, <<Salt1>>, Nonce1)
    \/ CallView
    \/ \E c \in KeyBytes \cup {<<>>} : CallSingleKeyView(c)
    \/ CallWriteTo(Nonce1)
    \/ CallRead(AccessKey1)

SpecView == Init /\ [][NextView]_vars

-----------------------------------------------------------------------------
(* Containers built by hand *)

\* The ids of the entries put in a bundle, in the order they are written, and
\* the active-key packet: none, or one with the payload given.
BundleIds == {<<>>} \cup {<<a>> : a \in 0..2} \cup {<<a, b>> : a, b \in 0..2}
ActivePackets == {<<>>, << <<>> >>} \cup {<<BE32(i)>> : i \in 0..3}

\* The key bytes of the i-th entry of a bundle.
BundleKey(i) == <<40 + i>>

RECURSIVE bundleEntries(_, _, _)
bundleEntries(p, ids, i) ==
    IF i > Len(ids) THEN p
    ELSE bundleEntries(AddKeyringEntry(p, ids[i], BundleKey(i)), ids, i + 1)

BundleOf(ids, act) ==
    bundleEntries(IF act = <<>> THEN <<>> ELSE AddPacket(<<>>, ActiveKeyType, act[1]),
                  ids, 1)

\* A container under AccessKey0 whose bundle is BundleOf(ids, act).
ContainerOf(ids, act) ==
    LET k   == GenerateAndEncryptKey(AccessKey0, AccessKeyLen, RandomByte, Nonce0)
        e   == EncryptWithKey(k.plain, BundleOf(ids, act), <<>>, Nonce1)
        hdr == WriteHeader(<<>>, FormatVersion, <<0, 0>>)
        p1  == AddPacket(hdr, AccessKeySaltType, Salt0)
        p2  == AddPacket(p1, DataKeyType, k.encrypted)
    IN  AddPacket(p2, BundleType, e.out)

\* The caller builds a container with packet.Buffer and the cipher.
CallBuild(ids, act) ==
    /\ ring = <<>>
    /\ file' = ContainerOf(ids, act)
    /\ ret' = Ret("Build", <<ids, act>>, 0, "")
    /\ g' = [Drop(g) EXCEPT !.src = <<[ak |-> AccessKey0, rk |-> <<>>,
                                       ids |-> ids, act |-> act]>>]
    /\ UNCHANGED <<ring, views, heap, vp, inBuf, outBuf>>

NextBundle ==
    \/ \E ids \in BundleIds, act \in ActivePackets : CallBuild(ids, act)
    \/ CallRead(AccessKey0)
    \/ Reopen
    \/ CallAdd(AddedKey, FALSE)
    \/ \E id \in Ids : CallActivate(id)
    \/ CallView

SpecBundle == Init /\ [][NextBundle]_vars

-----------------------------------------------------------------------------
(* The parsers applied to given bytes *)

CodecPayloads == {<<>>, <<9>>, <<9, 8>>}

\* Streams of up to two packets.
CodecStreams ==
    {<<>>}
    \cup {AddPacket(<<>>, KeyringEntryType, a) : a \in CodecPayloads}
    \cup {AddPacket(AddPacket(<<>>, KeyringEntryType, a), ActiveKeyType, b) :
              a, b \in CodecPayloads}

Prefixes(S) == UNION {{SubSeq(d, 1, n) : n \in 0..Len(d)} : d \in S}

\* Packets whose length field claims more bytes than follow.
LongPackets ==
    {<<4, 1, 0, 0>>, <<4, 0, 1, 0, 9>>, <<4, 0, 0, 1, 9, 5, 255, 255, 255, 1, 2>>}

CodecHeaders ==
    {<<MagicByte, 1, 0, 0>>, <<MagicByte, 2, 0, 0>>, <<MagicByte, 1, 0, 1>>,
     <<MagicByte, 1, 1, 0>>, <<235, 1, 0, 0>>}

CodecInputs ==
    LET body == Prefixes(CodecStreams) \cup LongPackets IN
    body \cup Prefixes(CodecHeaders) \cup {h \o b : h \in CodecHeaders, b \in body}

CodecBases == {0, 4}

\* The bytes Buffer.AddPacket writes for the packets out.
RECURSIVE EncodePackets(_)
EncodePackets(out) ==
    IF Len(out) = 0 THEN <<>>
    ELSE AddPacket(EncodePackets(SubSeq(out, 1, Len(out) - 1)),
                   out[Len(out)].Type, out[Len(out)].Data)

\* The packets given to AddPacket: known, unknown and reserved types, payloads
\* whose length takes one, two and three bytes of the length field.
PacketTypes == {0, KeyringEntryType, 255}
PacketPayloads == {<<>>, <<9>>, Fill(256, 3)}
Packets == {[Type |-> t, Data |-> d] : t \in PacketTypes, d \in PacketPayloads}
PacketSeqs ==
    {<<>>, <<[Type |-> 7, Data |-> Fill(65536, 5)]>>}
    \cup {<<a>> : a \in Packets} \cup {<<a, b>> : a, b \in Packets}

InitCodec ==
    /\ ring = <<>>
    /\ views = [a \in {RingView, SnapView} |-> ZeroView]
    /\ heap = EmptyHeap
    /\ vp = NilView
    /\ inBuf = NilSlice
    /\ outBuf = NilSlice
    /\ file \in CodecInputs
    /\ ret = Ret("", <<>>, 0, "")
    /\ g = [ak |-> <<>>, want |-> NoFn, src |-> <<>>, rsrc |-> <<>>, snap |-> <<>>]

\* var p packet.Buffer; p.AddPacket(t, d) for each packet of pkts, in order.
CallAddPackets(pkts) ==
    /\ file' = EncodePackets(pkts)
    /\ ret' = Ret("AddPacket", <<>>, Len(pkts), "")
    /\ g' = [g EXCEPT !.src = <<pkts>>]
    /\ UNCHANGED <<ring, views, heap, vp, inBuf, outBuf>>

\* out, err := packet.ParsePackets(data, base); val is the offset in err.
CallParsePackets(base) ==
    /\ LET res == ParsePackets(file, base) IN
       ret' = [Ret("ParsePackets", <<base>>, res.off, res.err) EXCEPT !.ring = res.out]
    /\ UNCHANGED <<ring, views, heap, vp, inBuf, outBuf, file, g>>

\* kr, err := packet.ParseKeyring(data)
CallParseKeyring ==
    /\ LET kr == ParseKeyring(file) IN
       ret' = [Ret("ParseKeyring", <<>>, kr.off, kr.err)
                 EXCEPT !.ring = kr.Packets,
                        !.pre = <<[Version |-> kr.Version, Reserved |-> kr.Reserved]>>]
    /\ UNCHANGED <<ring, views, heap, vp, inBuf, outBuf, file, g>>

NextCodec ==
    \/ \E pkts \in PacketSeqs : CallAddPackets(pkts)
    \/ \E base \in CodecBases : CallParsePackets(base)
    \/ CallParseKeyring

SpecCodec == InitCodec /\ [][NextCodec]_vars

-----------------------------------------------------------------------------
(* The end of a Ring's life *)

\* The cleanup addCleanup registers for the keys: clear(ki.Key) for each ki of
\* the slice it was given.
RECURSIVE clearKeys(_, _, _)
clearKeys(h, keys, i) ==
    IF i > Len(keys) THEN h
    ELSE clearKeys(clear(h, keys[i].Key), keys, i + 1)

\* addCleanup(r): the arguments the two cleanups are registered with, the
\* slice r.keys and the slice r.dkPlaintext as they are at the call.  A slice
\* is passed by value: entries appended to r.keys later are not in it.
addCleanup(r, v) == [keys |-> v.keys, key |-> r.dkPlaintext]

\* The ring New registers: it holds the initial key and nothing else.
Registered(r, v) == addCleanup(r, [v EXCEPT !.keys = SubSeq(@, 1, 1)])

\* The runtime runs the cleanups of a Ring that is no longer reachable.
runCleanups(h, r, reg) ==
    [h |-> clearKeys(h, reg.keys, 1),
     r |-> [r EXCEPT !.dkPlaintext = [i \in 1..Len(reg.key) |-> 0]]]

\* The caller drops the Ring and the collector runs its cleanups; ring, views
\* and heap then show the memory the Ring had.
CallRelease ==
    /\ ring # <<>> /\ ret.op # "Release"
    /\ LET res == runCleanups(heap, ring[1], Registered(ring[1], views[RingView])) IN
       /\ ring' = <<res.r>>
       /\ heap' = res.h
    /\ ret' = Ret("Release", <<>>, 0, "")
    /\ g' = Drop(g)
    /\ UNCHANGED <<views, vp, inBuf, outBuf, file>>

\* A Ring made by New, used and dropped.
NextCleanup ==
    \/ \E c \in KeyBytes : CallNew(AccessKey0, Salt0, c, RandomByte, Nonce0, FALSE)
    \/ ret.op # "Release" /\ CallAdd(AddedKey, FALSE)
    \/ ret.op # "Release" /\ CallAddRandom(2, RandomByte)
    \/ \E id \in Ids : ret.op # "Release" /\ CallActivate(id)
    \/ \E k \in AccessKeys : ret.op # "Release" /\ CallRekey(k, <<>>, Nonce1)
    \/ CallRelease

SpecCleanup == Init /\ [][NextCleanup]_vars

-----------------------------------------------------------------------------
(* Readers of a View running with a writer of the Ring *)

\* The threads, kept in ret.pre once they are started: w is where the writer
\* is in its call, r1 and r2 the readers' calls on the View vp, each with
\* what it has read so far (tmp) and what it returned.
Threads == ret.pre[1]

IdleThreads ==
    [w  |-> "idle",
     r1 |-> [op |-> "", pc |-> "idle", tmp |-> 0, val |-> 0],
     r2 |-> [op |-> "", arg |-> 0, pc |-> "idle", tmp |-> 0,
             has |-> FALSE, val |-> <<>>, err |-> ""]]

Running == ret.op = "Go"

\* go writer(r); go reader(v); go reader(v)
Go ==
    /\ ~Running /\ ring # <<>> /\ vp # NilView
    /\ ret' = [Ret("Go", <<>>, 0, "") EXCEPT !.pre = <<IdleThreads>>]
    /\ UNCHANGED <<ring, views, heap, vp, inBuf, outBuf, file, g>>

\* The memory after a step of the writer that leaves r, v and the slice in.
WriterStep(r, v, in, h, pc) ==
    LET st == GC([views EXCEPT ![RingView] = v], vp, in, NilSlice, h) IN
    /\ ring' = <<r>>
    /\ views' = st.views /\ inBuf' = st.inBuf /\ outBuf' = st.outBuf
    /\ heap' = st.heap
    /\ ret' = [ret EXCEPT !.pre = <<[Threads EXCEPT !.w = pc]>>]
    /\ UNCHANGED <<vp, file, g>>

\* r.Add(key): bytes.Clone(key) ...
WriterAddClone ==
    /\ Running /\ Threads.w = "idle"
    /\ Len(views[RingView].keys) < MaxKeys
    /\ LET c == Make(heap, AddedKey) IN
       WriterStep(ring[1], views[RingView], c.s, c.h, "add1")

\* ... addBytes: r.maxID++ ...
WriterAddCount ==
    /\ Running /\ Threads.w = "add1"
    /\ WriterStep([ring[1] EXCEPT !.maxID = @ + 1], views[RingView], inBuf, heap, "add2")

\* ... addBytes: r.keys = append(r.keys, KeyInfo{ID: r.maxID, Key: data})
WriterAddAppend ==
    /\ Running /\ Threads.w = "add2"
    /\ WriterStep(ring[1],
                  [views[RingView] EXCEPT
                      !.keys = Append(@, [ID |-> ring[1].maxID, Key |-> inBuf])],
                  NilSlice, heap, "idle")

\* r.Activate(id)
WriterActivate(id) ==
    /\ Running /\ Threads.w = "idle"
    /\ LET res == Activate(views[RingView], id) IN
       /\ ~res.panic
       /\ res.v # views[RingView]
       /\ WriterStep(ring[1], res.v, NilSlice, heap, "idle")

\* r.Rekey(newAccessKey, newSalt): the wrapped data key is stored ...
WriterRekeyKey ==
    /\ Running /\ Threads.w = "idle"
    /\ ring[1].accessKeySalt # Salt1
    /\ LET res == RekeyKeepsSalt(ring[1], AccessKey1, <<Salt1>>, Nonce1) IN
       WriterStep(res.r, views[RingView], NilSlice, heap, "rekey1")

\* ... then the salt
WriterRekeySalt ==
    /\ Running /\ Threads.w = "rekey1"
    /\ WriterStep([ring[1] EXCEPT !.accessKeySalt = Salt1], views[RingView],
                  NilSlice, heap, "idle")

\* A step of a reader: nothing but what the reader holds changes.
ReaderStep(t) ==
    /\ ret' = [ret EXCEPT !.pre = <<t>>]
    /\ UNCHANGED <<ring, views, heap, vp, inBuf, outBuf, file, g>>

\* n := v.Len()
ReaderLen ==
    /\ Running /\ Threads.r1.pc = "idle"
    /\ ReaderStep([Threads EXCEPT !.r1 = [op |-> "Len", pc |-> "done", tmp |-> 0,
                                          val |-> ViewLen(views[vp])]])

\* id := v.Active(): v.activeKey is read ...
ReaderActiveIndex ==
    /\ Running /\ Threads.r1.pc = "idle"
    /\ ReaderStep([Threads EXCEPT !.r1 = [op |-> "Active", pc |-> "mid",
                                          tmp |-> views[vp].activeKey, val |-> 0]])

\* ... then v.keys[v.activeKey].ID
ReaderActiveID ==
    /\ Running /\ Threads.r1.pc = "mid"
    /\ ReaderStep([Threads EXCEPT !.r1.pc = "done",
                                  !.r1.val = views[vp].keys[Threads.r1.tmp + 1].ID])

\* ok := v.Has(id)
ReaderHas(id) ==
    /\ Running /\ Threads.r2.pc = "idle"
    /\ ReaderStep([Threads EXCEPT !.r2 = [op |-> "Has", arg |-> id, pc |-> "done",
                                          tmp |-> 0, has |-> ViewHas(views[vp], id),
                                          val |-> <<>>, err |-> ""]])

\* key := v.Get(id): packet.FindKey(v.keys, id), a panic when it is not found ...
ReaderFind(id) ==
    /\ Running /\ Threads.r2.pc = "idle"
    /\ LET pos == FindKey(views[vp].keys, id) IN
       ReaderStep([Threads EXCEPT !.r2 = [op |-> "Get", arg |-> id,
                                          pc |-> IF pos < 0 THEN "done" ELSE "mid",
                                          tmp |-> pos, has |-> FALSE, val |-> <<>>,
                                          err |-> IF pos < 0 THEN "panic" ELSE ""]])

\* ... then append(nil, v.keys[pos].Key...)
ReaderCopy ==
    /\ Running /\ Threads.r2.pc = "mid"
    /\ ReaderStep([Threads EXCEPT
           !.r2.pc = "done",
           !.r2.val = Bytes(heap, views[vp].keys[Threads.r2.tmp + 1].Key)])

\* The reader goes on to its next call.
ReaderReturn ==
    /\ Running
    /\ \/ /\ Threads.r1.pc = "done"
          /\ ReaderStep([Threads EXCEPT !.r1 = IdleThreads.r1])
       \/ /\ Threads.r2.pc = "done"
          /\ ReaderStep([Threads EXCEPT !.r2 = IdleThreads.r2])

\* A ring is made and a View of it taken; then the writer and two readers run,
\* their steps in any order.
NextReaders ==
    \/ CallNew(AccessKey0, Salt0, <<2, 3>>, RandomByte, Nonce0, FALSE)
    \/ ~Running /\ vp = NilView /\ CallAdd(AddedKey, FALSE)
    \/ ~Running /\ vp = NilView /\ CallView
    \/ Go
    \/ WriterAddClone
    \/ WriterAddCount
    \/ WriterAddAppend
    \/ \E id \in Ids : WriterActivate(id)
    \/ WriterRekeyKey
    \/ WriterRekeySalt
    \/ ReaderLen
    \/ ReaderActiveIndex
    \/ ReaderActiveID
    \/ \E id \in 1..2 : ReaderHas(id)
    \/ \E id \in 1..2 : ReaderFind(id)
    \/ ReaderCopy
    \/ ReaderReturn

SpecReaders == Init /\ [][NextReaders]_vars

-----------------------------------------------------------------------------
(* A Ring made and read back with a key derived from a passphrase *)

\* "hunter2", and the keys "too many secrets" and "no more secrets"
Hunter2 == <<104, 117, 110, 116, 101, 114, 50>>
TooManySecrets == <<116, 111, 111, 32, 109, 97, 110, 121, 32, 115, 101, 99, 114, 101, 116, 115>>
NoMoreSecrets == <<110, 111, 32, 109, 111, 114, 101, 32, 115, 101, 99, 114, 101, 116, 115>>

Passphrases == {Hunter2, <<99>>}
SaltBytes == {40, 41}

\* key, salt := AccessKeyFromPassphrase(p); r, err := New(Config{AccessKey:
\* key, AccessKeySalt: salt, InitialKey: c})
CallNewFromPassphrase(p, rnd, c) ==
    LET kp == AccessKeyFromPassphrase(p, rnd)
    IN  CallNew(kp.key, kp.salt, c, RandomByte, Nonce0, FALSE)

\* r2, err := Read(&buf, HKDF(p)); the reader is drained.
CallReadHKDF(p) ==
    /\ file # <<>>
    /\ LET res == Read(file, HKDF(p)) IN
       /\ ret' = [Ret("ReadHKDF", <<p>>, 0, res.err)
                    EXCEPT !.ring = res.ring, !.pre = res.salts]
       /\ g' = [g EXCEPT !.rsrc = g.src, !.src = <<>>]
    /\ file' = <<>>
    /\ UNCHANGED <<ring, views, heap, vp, inBuf, outBuf>>

NextPassphrase ==
    \/ \E p \in Passphrases, rnd \in SaltBytes, c \in {<<1>>, TooManySecrets} :
           CallNewFromPassphrase(p, rnd, c)
    \/ \E c \in {AddedKey, NoMoreSecrets} : CallAdd(c, FALSE)
    \/ \E id \in 1..2 : CallActivate(id)
    \/ CallWriteTo(Nonce1)
    \/ \E p \in Passphrases : CallReadHKDF(p)

SpecPassphrase == Init /\ [][NextPassphrase]_vars

-----------------------------------------------------------------------------
(* A written container changed in storage, then decrypted and read *)

AuthFailed == "message authentication failed"

\* What r.WriteTo gave for the Ring as it is.
Stored == WriteTo(heap, ring[1], views[RingView], Nonce1).out

\* The offset in a container of the payload of its data key packet, after
\* the header and the salt packet.
DataKeyOffset(data) == 4 + 4 + uint24(SubSeq(data, 6, 8)) + 4

\* The places of a container changed: the first ciphertext byte and the
\* first and last tag byte of the wrapped data key, the first ciphertext
\* byte and the last tag byte of the bundle.
TamperPlaces(data) ==
    LET dk == DataKeyOffset(data)
        b  == dk + NonceSize + KeyLen + Overhead + 4
    IN  {dk + NonceSize + 1, dk + NonceSize + KeyLen + 1,
         dk + NonceSize + KeyLen + Overhead, b + NonceSize + 1, Len(data)}

\* One byte of ciphertext or tag replaced by another.
Tamper(data, i) ==
    [data EXCEPT ![i] = [@ EXCEPT !.t = IF Len(@) = 1 THEN <<(@[1] + 1) % 256>>
                                         ELSE IF Len(@) = 0 THEN <<0>>
                                         ELSE <<>>]]

CallTamper(i) ==
    /\ ring # <<>> /\ file # <<>> /\ file = Stored
    /\ i \in TamperPlaces(file)
    /\ file' = Tamper(file, i)
    /\ ret' = Ret("Tamper", <<i>>, 0, "")
    /\ UNCHANGED <<ring, views, heap, vp, inBuf, outBuf, g>>

\* The payload of the first packet of type t of a container.
PacketData(data, t) ==
    SelectSeq(ParseKeyring(data).Packets, LAMBDA p : p.Type = t)[1].Data

\* The keys DecryptWithKey is called with: access keys and the data key.
DecryptKeys == AccessKeys \cup {GenerateKey(AccessKeyLen, RandomByte)}

\* plain, err := cipher.DecryptWithKey(key, pkt.Data, nil), pkt the packet
\* of type t of the container.
CallDecryptWithKey(t, key) ==
    /\ ring # <<>> /\ file # <<>>
    /\ LET res == DecryptWithKey(key, PacketData(file, t), <<>>) IN
       ret' = [Ret("DecryptWithKey", <<t, key>>, 0, res.err) EXCEPT !.ring = <<res.data>>]
    /\ UNCHANGED <<ring, views, heap, vp, inBuf, outBuf, file, g>>

\* r2, err := Read(bytes.NewReader(data), StaticKey(key)); the caller keeps
\* data.
CallReadData(key) ==
    /\ ring # <<>> /\ file # <<>>
    /\ LET res == Read(file, StaticKey(key)) IN
       ret' = [Ret("ReadData", <<key>>, 0, res.err)
                 EXCEPT !.ring = res.ring, !.pre = res.salts]
    /\ UNCHANGED <<ring, views, heap, vp, inBuf, outBuf, file, g>>

NextTamper ==
    \/ \E ak \in AccessKeys, c \in KeyBytes :
           CallNew(ak, Salt0, c, RandomByte, Nonce0, FALSE)
    \/ CallAdd(AddedKey, FALSE)
    \/ CallWriteTo(Nonce1)
    \/ \E i \in (IF file = <<>> THEN {} ELSE TamperPlaces(file)) : CallTamper(i)
    \/ \E t \in {DataKeyType, BundleType}, key \in DecryptKeys : CallDecryptWithKey(t, key)
    \/ \E key \in AccessKeys : CallReadData(key)

SpecTamper == Init /\ [][NextTamper]_vars

-----------------------------------------------------------------------------
(* The nonces of the seals made by New, Rekey and WriteTo *)

MaxDraws == 4

\* The n-th nonce crand.Read gives: a value it has not given before.
Draw(n) == Fill(NonceSize, n)

\* The key and nonce a sealed payload was made with, and the nonce it starts
\* with.
SealOf(payload) ==
    LET t == payload[Len(payload) - Overhead + 1].t
    IN  [key |-> t[1], nonce |-> t[2], prefix |-> SubSeq(payload, 1, NonceSize)]

\* The record of the seals made so far, kept with what the last call
\* returned: the number of nonces drawn, the seals, and whether crand.Read
\* succeeded in the last call and how many seals that call made.
NoSeals == [draws |-> 0, seals |-> <<>>, ok |-> TRUE, added |-> 0]
SealLog == IF ret.pre = <<>> THEN NoSeals ELSE ret.pre[1]

Logged(ok, sealed) ==
    <<[draws |-> SealLog.draws + (IF ok THEN 1 ELSE 0),
       seals |-> SealLog.seals \o sealed,
       ok    |-> ok,
       added |-> Len(sealed)]>>

NonceDrawn(ok) == IF ok THEN Draw(SealLog.draws + 1) ELSE ReadFailed

\* r, err := New(Config{InitialKey: c, AccessKey: ak})
NonceNew(ak, c, ok) ==
    /\ ring = <<>>
    /\ ok => SealLog.draws < MaxDraws
    /\ LET b   == Make(EmptyHeap, c)
           res == New(b.h, [InitialKey |-> b.s, AccessKey |-> ak, AccessKeySalt |-> <<>>],
                      RandomByte, NonceDrawn(ok))
           st  == GC([views EXCEPT ![RingView] = res.v], vp, NilSlice, NilSlice, res.h)
       IN  /\ ring' = res.r
           /\ views' = st.views /\ inBuf' = st.inBuf /\ outBuf' = st.outBuf
           /\ heap' = st.heap
           /\ ret' = [Ret("New", <<ak, c>>, 0, res.err)
                        EXCEPT !.pre = Logged(ok, IF res.r = <<>> THEN <<>>
                                                  ELSE <<SealOf(res.r[1].dkEncrypted)>>)]
           /\ g' = IF res.err = "" THEN [g EXCEPT !.ak = ak] ELSE g
    /\ UNCHANGED <<vp, file>>

\* err := r.Rekey(newAccessKey)
NonceRekey(newAccessKey, ok) ==
    /\ ring # <<>>
    /\ ok => SealLog.draws < MaxDraws
    /\ LET res == Rekey(ring[1], newAccessKey, <<>>, NonceDrawn(ok)) IN
       /\ ring' = <<res.r>>
       /\ ret' = [Ret("Rekey", <<newAccessKey>>, 0, res.err)
                    EXCEPT !.pre = Logged(ok, IF res.r.dkEncrypted = ring[1].dkEncrypted
                                              THEN <<>>
                                              ELSE <<SealOf(res.r.dkEncrypted)>>)]
       /\ g' = IF res.err = "" THEN [g EXCEPT !.ak = newAccessKey] ELSE g
    /\ UNCHANGED <<views, heap, vp, inBuf, outBuf, file>>

\* nw, err := r.WriteTo(&buf), buf empty before the call
NonceWriteTo(ok) ==
    /\ ring # <<>>
    /\ ok => SealLog.draws < MaxDraws
    /\ LET w == WriteTo(heap, ring[1], views[RingView], NonceDrawn(ok)) IN
       /\ file' = w.out
       /\ ret' = [Ret("WriteTo", <<>>, w.nw, w.err)
                    EXCEPT !.pre = Logged(ok, IF w.out = <<>> THEN <<>>
                                              ELSE <<SealOf(PacketData(w.out, BundleType))>>)]
    /\ UNCHANGED <<ring, views, heap, vp, inBuf, outBuf, g>>

NextNonce ==
    \/ \E ak \in AccessKeys, c \in KeyBytes, ok \in BOOLEAN : NonceNew(ak, c, ok)
    \/ \E ak \in AccessKeys, ok \in BOOLEAN : NonceRekey(ak, ok)
    \/ \E ok \in BOOLEAN : NonceWriteTo(ok)

SpecNonce == Init /\ [][NextNonce]_vars

-----------------------------------------------------------------------------
(* EncryptWithKey and DecryptWithKey applied to given keys and data *)

CipherKeys == AccessKeys \cup {Fill(12, 10)}
CipherData == {<<>>, <<1>>, <<2, 3>>}
CipherExtra == {<<>>, <<9>>}

\* n, sealed, err := cipher.EncryptWithKey(key, data, extra)
CallEncryptWithKey(key, data, extra, nonce) ==
    /\ LET e == EncryptWithKey(key, data, extra, nonce) IN
       /\ file' = e.out
       /\ ret' = Ret("EncryptWithKey", <<key, data, extra, nonce>>, e.n, e.err)
    /\ g' = [Drop(g) EXCEPT !.src = <<[key |-> key, data |-> data, extra |-> extra]>>]
    /\ UNCHANGED <<ring, views, heap, vp, inBuf, outBuf>>

\* plain, err := cipher.DecryptWithKey(key, sealed[:n], extra)
CallDecryptSealed(key, extra, n) ==
    /\ file # <<>> /\ n \in 0..Len(file)
    /\ LET d == DecryptWithKey(key, SubSeq(file, 1, n), extra) IN
       ret' = [Ret("DecryptSealed", <<key, extra, n>>, 0, d.err) EXCEPT !.ring = <<d.data>>]
    /\ UNCHANGED <<ring, views, heap, vp, inBuf, outBuf, file, g>>

NextCipher ==
    \/ \E key \in CipherKeys, data \in CipherData, extra \in CipherExtra,
          nonce \in {Nonce0, Nonce1} : CallEncryptWithKey(key, data, extra, nonce)
    \/ \E key \in CipherKeys, extra \in CipherExtra,
          n \in {0, NonceSize - 1, NonceSize, Len(file) - 1, Len(file)} :
            CallDecryptSealed(key, extra, n)

SpecCipher == Init /\ [][NextCipher]_vars

-----------------------------------------------------------------------------
(* Packets added to one Buffer, one at a time *)

MaxPackets == 2

\* A payload of n bytes.
Payload(n) == Fill(n, 5)

\* The packets the Buffer holds.
Added == IF g.src = <<>> THEN <<>> ELSE g.src[1]

\* p.AddPacket(pt, data) on the Buffer p whose bytes are file.
CallAddPacket(pt, data) ==
    /\ Len(Added) < MaxPackets
    /\ file' = AddPacket(file, pt, data)
    /\ ret' = Ret("AddOnePacket", <<pt, Len(data)>>, 0,
                  IF AddPacketPanics(data) THEN "panic" ELSE "")
    /\ g' = IF AddPacketPanics(data) THEN g
            ELSE [g EXCEPT !.src = <<Append(Added, [Type |-> pt, Data |-> data])>>]
    /\ UNCHANGED <<ring, views, heap, vp, inBuf, outBuf>>

NextPacket ==
    \/ \E pt \in PacketTypes, data \in {<<>>, Payload(255), Payload(256)} :
          CallAddPacket(pt, data)
    \/ CallAddPacket(255, Payload(maxUint24 + 1))
    \/ CallParsePackets(0)

SpecPacket == Init /\ [][NextPacket]_vars

-----------------------------------------------------------------------------
(* Properties *)

\* The bytes Get(id) returns from the Ring, and those GetActive returns.
GetBytes(h, v, id) == LET r == RingGet(h, v, id) IN Bytes(r.h, r.s)

GetActiveBytes(h, v) == LET r == RingGetActive(h, v) IN Bytes(r.h, r.s)

\* What the last Read was given: the written ring's key and observations.
Written == g.rsrc[1]

\* C1: WriteTo followed by Read with the ring's current access key yields a
\* Ring with the same key ids, the same bytes for every id and the same
\* active id, whatever Add, AddRandom, Activate and Rekey calls came before.
RoundTrip ==
    (ret.op = "Read" /\ ret.arg[1] = Written.ak) =>
        /\ ret.err = "" /\ ret.ring # <<>>
        /\ ObsRead(ret.ring[1]) = Written.obs

RoundTripWitness ==
    /\ ret.op = "Read" /\ ret.err = "" /\ ret.arg[1] = Written.ak
    /\ Written.ak = AccessKey1
    /\ Written.obs.len = 3 /\ Written.obs.active = 2
    /\ ObsRead(ret.ring[1]).key[3] = AddedKey

\* C2: Read of a written container with an access key other than the one
\* that wraps its data key fails and returns no Ring.
WrongKeyFails ==
    (ret.op = "Read" /\ ret.arg[1] # Written.ak) =>
        ret.err # "" /\ ret.ring = <<>>

WrongKeyFailsWitness ==
    /\ ret.op = "Read" /\ ret.arg[1] = AccessKey1 /\ Written.ak = AccessKey0
    /\ Written.obs.len = 2
    /\ ret.err # "" /\ ret.ring = <<>>

\* C3 (as amended): a container written after a successful Rekey(newKey, ...)
\* reads with newKey to the ids, bytes and active id the ring had before
\* Rekey, and Read of it with the old access key fails when the old key
\* differs from newKey.
RekeyKeepsKeys ==
    (ret.op = "Read" /\ Written.rk # <<>>) =>
        /\ ret.arg[1] = Written.ak =>
               ret.err = "" /\ ret.ring # <<>> /\ ObsRead(ret.ring[1]) = Written.rk[1].obs
        /\ (ret.arg[1] = Written.rk[1].old /\ Written.rk[1].old # Written.ak) =>
               ret.err # ""

RekeyKeepsKeysWitness ==
    /\ ret.op = "Read" /\ Written.rk # <<>>
    /\ Written.rk[1].old = AccessKey0 /\ Written.ak = AccessKey1
    /\ ret.arg[1] = AccessKey0 /\ ret.err # ""
    /\ Written.rk[1].obs.len = 2

\* C3 as stated: after Rekey, the written container reads with newKey to the
\* keys the ring had, and Read with the old access key fails.
RekeyOldKeyFails ==
    (ret.op = "Read" /\ Written.rk # <<>>) =>
        /\ ret.arg[1] = Written.ak =>
               ret.err = "" /\ ret.ring # <<>> /\ ObsRead(ret.ring[1]) = Written.rk[1].obs
        /\ ret.arg[1] = Written.rk[1].old => ret.err # ""

\* C4: the id an Add or AddRandom returns is greater than every id in the
\* ring and than the id the Add before it returned; a Ring obtained by Read
\* has maxID at least every id it holds, so the same is true of the first
\* Add after a reload.
IdsIncrease ==
    [][ /\ (ret'.op \in {"Add", "AddRandom"} /\ ret'.err = "") =>
              /\ \A i \in 1..Len(views[RingView].keys) :
                     ret'.val > views[RingView].keys[i].ID
              /\ (ret.op \in {"Add", "AddRandom"} /\ ret.err = "") => ret'.val > ret.val
        /\ ret'.op = "Reopen" =>
              \A i \in 1..Len(views'[RingView].keys) :
                  ring'[1].maxID >= views'[RingView].keys[i].ID
      ]_vars

IdsIncreaseWitness ==
    /\ ret.op \in {"Add", "AddRandom"} /\ ret.err = ""
    /\ ret.pre = <<TRUE>>
    /\ ret.val = 3 /\ RingLen(views[RingView]) = 3

\* C5: after New with InitialKey b or Add(b), overwriting b leaves every
\* stored key as it was: Get, Append and GetActive return the bytes b held.
InputNotShared ==
    ret.op = "ClearIn" =>
        /\ \A id \in DOMAIN g.want :
               /\ RingHas(views[RingView], id)
               /\ GetBytes(heap, views[RingView], id) = g.want[id]
        /\ GetActiveBytes(heap, views[RingView]) = g.want[RingActive(views[RingView])]

InputNotSharedWitness ==
    /\ ret.op = "ClearIn" /\ ret.pre = <<"Add">>
    /\ RingLen(views[RingView]) = 2
    /\ GetBytes(heap, views[RingView], 2) = AddedKey

\* C6: overwriting the bytes Get, Append, GetActive or AppendActive returned,
\* from the Ring or from a View, changes nothing a later Get returns.
OutputNotShared ==
    ret.op = "ClearOut" =>
        /\ \A id \in DOMAIN g.want :
               GetBytes(heap, views[RingView], id) = g.want[id]
        /\ vp # NilView => Obs(heap, views[vp]).key = g.snap[1].key

OutputNotSharedWitness ==
    /\ ret.op = "ClearOut" /\ ret.pre = <<SnapView>>
    /\ vp = SnapView /\ ViewHas(views[vp], 2)
    /\ Obs(heap, views[vp]).key[2] = AddedKey

\* C7: a View reports the Len, active id, Has results and key bytes the Ring
\* had when View() was called, also after later Add, AddRandom, Activate and
\* Rekey calls on the Ring.
ViewIsSnapshot ==
    vp # NilView => Obs(heap, views[vp]) = g.snap[1]

ViewIsSnapshotWitness ==
    /\ vp # NilView /\ g.snap # <<>>
    /\ g.snap[1].len = 1
    /\ RingLen(views[RingView]) = 3 /\ RingActive(views[RingView]) = 2
    /\ g.ak = AccessKey1

\* C8: after a successful New the Ring has exactly one key, with id 1 and the
\* bytes of InitialKey, which is active; maxID is 1 and an Add returns id 2.
NewHasOneKey ==
    (ret.op = "New" /\ ret.err = "") =>
        /\ ring # <<>>
        /\ RingLen(views[RingView]) = 1
        /\ RingHas(views[RingView], 1)
        /\ GetBytes(heap, views[RingView], 1) = ret.arg[2]
        /\ RingActive(views[RingView]) = 1
        /\ ring[1].maxID = 1
        /\ LET b == Make(heap, AddedKey) IN
           Add(b.h, ring[1], views[RingView], b.s).id = 2

NewHasOneKeyWitness ==
    /\ ret.op = "New" /\ ret.err = "" /\ ret.arg[2] = <<2, 3>>
    /\ ring # <<>>

\* C9: New returns an error and no Ring when the access key is not 32 bytes
\* long (also when there is none) or the initial key is empty.
NewRejects ==
    (ret.op = "New" /\ (Len(ret.arg[1]) # 32 \/ ret.arg[2] = <<>>)) =>
        ret.err # "" /\ ring = <<>>

NewRejectsWitness ==
    /\ ret.op = "New" /\ Len(ret.arg[1]) = 32 /\ ret.arg[2] = <<>>
    /\ ret.err # "" /\ ring = <<>>

\* C10: Add of a non-empty key appends one entry, the others staying as they
\* were; its id is the maxID before the call plus one, which is the id
\* returned and the new maxID, and Len grows by one.
AddAppendsOne ==
    [][ (ret'.op = "Add" /\ ret'.arg[1] # <<>>) =>
            LET v == views[RingView]
                w == views'[RingView]
            IN  /\ ret'.err = ""
                /\ ret'.val = ring[1].maxID + 1
                /\ ring'[1].maxID = ret'.val
                /\ RingLen(w) = RingLen(v) + 1
                /\ w.keys[Len(w.keys)].ID = ret'.val
                /\ Bytes(heap', w.keys[Len(w.keys)].Key) = ret'.arg[1]
                /\ \A i \in 1..Len(v.keys) :
                       /\ w.keys[i].ID = v.keys[i].ID
                       /\ Bytes(heap', w.keys[i].Key) = Bytes(heap, v.keys[i].Key)
      ]_vars

AddAppendsOneWitness ==
    /\ ret.op = "Add" /\ ret.err = "" /\ ret.arg[1] = AddedKey
    /\ ret.val = 2 /\ ring[1].maxID = 2
    /\ RingLen(views[RingView]) = 2

\* C11: Add and AddRandom leave the active key as it is: Active() and the
\* bytes of GetActive are the same after the call as before it, and on a Ring
\* they change in no call but Activate.
ActiveOnlyByActivate ==
    [][ (ring # <<>> /\ ring' # <<>> /\ ret'.op # "Reopen") =>
            /\ ret'.op \in {"Add", "AddRandom"} =>
                   /\ RingActive(views'[RingView]) = RingActive(views[RingView])
                   /\ GetActiveBytes(heap', views'[RingView]) =
                          GetActiveBytes(heap, views[RingView])
            /\ (\/ RingActive(views'[RingView]) # RingActive(views[RingView])
                \/ GetActiveBytes(heap', views'[RingView]) #
                       GetActiveBytes(heap, views[RingView])) => ret'.op = "Activate"
      ]_vars

ActiveOnlyByActivateWitness ==
    /\ ret.op = "AddRandom" /\ ret.err = "" /\ ret.val = 3
    /\ RingActive(views[RingView]) = 2
    /\ GetActiveBytes(heap, views[RingView]) = AddedKey

\* C12: Activate(id) of an id in the ring makes Active() = id and GetActive
\* return the bytes of id; Len, the ids, every key's bytes and maxID stay.
ActivateSelects ==
    [][ (ret'.op = "Activate" /\ RingHas(views[RingView], ret'.arg[1])) =>
            /\ ret'.err = ""
            /\ RingActive(views'[RingView]) = ret'.arg[1]
            /\ GetActiveBytes(heap', views'[RingView]) =
                   GetBytes(heap, views[RingView], ret'.arg[1])
            /\ RingLen(views'[RingView]) = RingLen(views[RingView])
            /\ Obs(heap', views'[RingView]).has = Obs(heap, views[RingView]).has
            /\ Obs(heap', views'[RingView]).key = Obs(heap, views[RingView]).key
            /\ ring'[1].maxID = ring[1].maxID
      ]_vars

ActivateSelectsWitness ==
    /\ ret.op = "Activate" /\ ret.err = "" /\ ret.arg[1] = 3
    /\ RingActive(views[RingView]) = 3
    /\ RingLen(views[RingView]) = 3
    /\ GetActiveBytes(heap, views[RingView]) = Fill(2, RandomByte)

FaultyAddPanics ==
    [][ (\/ ret'.op = "Add" /\ ret'.arg[1] = <<>>
         \/ ret'.op = "AddRandom" /\ ret'.arg[1] <= 0) =>
            /\ ret'.err = "panic"
            /\ ring' = ring
            /\ Obs(heap', views'[RingView]) = Obs(heap, views[RingView])
            /\ LET b == Make(heap, AddedKey)
                   c == Make(heap', AddedKey)
               IN  Add(c.h, ring'[1], views'[RingView], c.s).id =
                       Add(b.h, ring[1], views[RingView], b.s).id
      ]_vars

FaultyAddPanicsWitness ==
    /\ ret.op = "AddRandom" /\ ret.arg[1] = 0 /\ ret.err = "panic"
    /\ RingLen(views[RingView]) = 2 /\ ring[1].maxID = 2

\* C15: a successful Rekey(newKey, newSalt) makes newSalt the persisted salt
\* when one is supplied and keeps the previous salt when it is omitted; a Read
\* of what the ring wrote hands that persisted salt, and nothing else, to the
\* access-key function.
RekeySetsSalt ==
    [][ /\ (ret'.op = "Rekey" /\ ret'.err = "") =>
               ring'[1].accessKeySalt =
                   IF ret'.arg[2] = <<>> THEN ring[1].accessKeySalt ELSE ret'.arg[2][1]
        /\ ret'.op = "Read" => ret'.pre = <<ring[1].accessKeySalt>>
      ]_vars

RekeySetsSaltWitness ==
    /\ ret.op = "Read" /\ ret.err = "" /\ ret.arg[1] = AccessKey1
    /\ Written.rk # <<>>
    /\ ret.pre = <<Salt1>>
    /\ ret.ring[1].accessKeySalt = Salt1

\* C16: Rekey with a new access key that is not 32 bytes long returns an
\* error and leaves the wrapped data key and the salt as they were: what the
\* ring writes next is read with the access key it had, and gives its keys.
RekeyRejects ==
    [][ /\ (ret'.op = "Rekey" /\ Len(ret'.arg[1]) # AccessKeyLen) =>
               /\ ret'.err # ""
               /\ ring'[1].dkEncrypted = ring[1].dkEncrypted
               /\ ring'[1].accessKeySalt = ring[1].accessKeySalt
               /\ ring' = ring
               /\ g'.ak = g.ak
        /\ (ret.op = "Rekey" /\ ret.err # "" /\ ret'.op = "WriteTo") =>
               LET rd == Read(file', StaticKey(ret.pre[1].old))
               IN  /\ ret'.err = "" /\ rd.err = "" /\ rd.ring # <<>>
                   /\ ObsRead(rd.ring[1]) = ret.pre[1].obs
      ]_vars

RekeyRejectsWitness ==
    /\ ret.op = "Rekey" /\ ret.err # ""
    /\ ret.arg = <<Fill(12, 10), <<Salt1>> >>
    /\ ring[1].accessKeySalt = Salt0
    /\ g.ak = AccessKey0
    /\ RingLen(views[RingView]) = 2

\* C17: Read fails with an error and returns no Ring when the decrypted
\* bundle holds an entry with id zero, two entries with the same id, or an
\* active-key packet with a non-empty id that no entry has.
ReadValidates ==
    (ret.op = "Read" /\ g.rsrc # <<>>) =>
        LET ids   == Written.ids
            act   == Written.act
            zero  == \E i \in DOMAIN ids : ids[i] = 0
            dup   == \E i, j \in DOMAIN ids : i < j /\ ids[i] = ids[j]
            stray == /\ act # <<>> /\ act[1] # <<>>
                     /\ \A i \in DOMAIN ids : ids[i] # Uint32(act[1])
        IN  (zero \/ dup \/ stray) => (ret.err # "" /\ ret.ring = <<>>)

ReadValidatesWitness ==
    /\ ret.op = "Read" /\ g.rsrc # <<>>
    /\ Written.ids = <<2, 1>> /\ Written.act = <<BE32(3)>>
    /\ ret.err # "" /\ ret.ring = <<>>

\* out, err and the offset in err are what parsing data at offset base must
\* give: out are the complete packets data begins with and all of them, err
\* is none when nothing follows them, a header truncation at base + consumed
\* when 1 to 3 bytes follow, and a packet truncation at base + consumed (the
\* 4-byte header counted) when the next length field exceeds what follows.
PacketsParsed(data, base, out, err, off) ==
    LET enc == EncodePackets(out)
        c   == Len(enc)
        n   == Len(data) - c
    IN  /\ c <= Len(data) /\ enc = SubSeq(data, 1, c)
        /\ n = 0 => err = ""
        /\ n \in 1..3 => (err = "truncated packet header" /\ off = base + c)
        /\ n >= 4 => /\ uint24(SubSeq(data, c + 2, c + 4)) > n - 4
                     /\ err = "truncated packet"
                     /\ off = base + c + 4

\* C18: ParsePackets stays inside its input: with fewer than 4 bytes left for
\* a header, or a 24-bit length over the bytes left, it returns an error with
\* the offset base + bytes consumed and exactly the complete packets before
\* that point; ParseKeyring passes packets and error through with base 4.
ParsePacketsTruncation ==
    /\ ret.op = "ParsePackets" =>
           PacketsParsed(file, ret.arg[1], ret.ring, ret.err, ret.val)
    /\ (ret.op = "ParseKeyring" /\ Len(file) >= 4 /\ file[1] = MagicByte) =>
           PacketsParsed(Tail4(file), 4, ret.ring, ret.err, ret.val)

ParsePacketsTruncationWitness ==
    /\ ret.op = "ParseKeyring"
    /\ file = <<MagicByte, 1, 0, 0, 4, 0, 0, 1, 9, 5, 0, 0, 2, 9>>
    /\ ret.err = "truncated packet" /\ ret.val = 13
    /\ ret.ring = <<[Type |-> 4, Data |-> <<9>>]>>

\* The zero Keyring: no version, no reserved bytes, no packets.
EmptyKeyring ==
    /\ ret.ring = <<>>
    /\ ret.pre = <<[Version |-> 0, Reserved |-> <<0, 0>>]>>

\* C19: ParseKeyring returns an error and an empty Keyring when the input is
\* shorter than 4 bytes or its first byte is not the magic byte; the length is
\* checked first, so an input under 4 bytes is always a truncated header.
ParseKeyringHeader ==
    ret.op = "ParseKeyring" =>
        /\ Len(file) < 4 =>
               (ret.err = "invalid keyring: header truncated" /\ EmptyKeyring)
        /\ (Len(file) >= 4 /\ file[1] # MagicByte) =>
               (ret.err = "invalid keyring: invalid header" /\ EmptyKeyring)

ParseKeyringHeaderWitness ==
    /\ ret.op = "ParseKeyring" /\ file = <<235, 1, 0>>
    /\ ret.err = "invalid keyring: header truncated" /\ EmptyKeyring

\* C20 as stated: ParseKeyring rejects an input whose version byte is not
\* 0x01 or whose reserved bytes are not zero.
ParseKeyringChecksVersion ==
    (/\ ret.op = "ParseKeyring" /\ Len(file) >= 4
     /\ (file[2] # FormatVersion \/ <<file[3], file[4]>> # <<0, 0>>)) =>
        ret.err # ""

\* C20, amended: of the header ParseKeyring checks the length and the magic
\* byte only; the version and reserved bytes are returned as they are, for the
\* caller to check, and the only errors left are those of the packets.
ParseKeyringLeavesVersion ==
    (ret.op = "ParseKeyring" /\ Len(file) >= 4 /\ file[1] = MagicByte) =>
        /\ ret.pre = <<[Version |-> file[2], Reserved |-> <<file[3], file[4]>>]>>
        /\ ret.err \in {"", "truncated packet header", "truncated packet"}
        /\ ret.err = "" <=> EncodePackets(ret.ring) = Tail4(file)

ParseKeyringLeavesVersionWitness ==
    /\ ret.op = "ParseKeyring"
    /\ file = <<MagicByte, 2, 0, 0, 4, 0, 0, 1, 9>>
    /\ ret.err = ""
    /\ ret.pre = <<[Version |-> 2, Reserved |-> <<0, 0>>]>>
    /\ ret.ring = <<[Type |-> 4, Data |-> <<9>>]>>

\* C21: ParsePackets of the bytes AddPacket wrote for a sequence of packets,
\* of any type byte and any payload up to 2^24-1 bytes, gives the same types
\* and payloads in the same order and no error; the 3 bytes of the length
\* field give back every length up to 2^24-1.
PacketsRoundTrip ==
    /\ (ret.op = "ParsePackets" /\ g.src # <<>>) =>
           (ret.err = "" /\ ret.ring = g.src[1])
    /\ \A n \in {0, 255, 256, 65535, 65536, maxUint24 - 1, maxUint24} :
           uint24(SubSeq(BE32(n), 2, 4)) = n

PacketsRoundTripWitness ==
    /\ ret.op = "ParsePackets" /\ g.src # <<>> /\ ret.err = ""
    /\ Len(ret.ring) = 2
    /\ ret.ring[1] = [Type |-> 255, Data |-> Fill(256, 3)]
    /\ ret.ring[2] = [Type |-> 0, Data |-> <<>>]

\* C22: WriteTo emits the 4-byte header, the salt packet, the wrapped data
\* key packet and one bundle packet, in this order and nothing else; the
\* bundle opens to one active-id packet with the ring's active id and one
\* keyring-entry packet per key, the entries in ascending id order.
WriteToLayout ==
    (ret.op = "WriteTo" /\ ret.err = "") =>
        LET r     == ring[1]
            v     == views[RingView]
            kr    == ParseKeyring(file)
            dec   == DecryptWithKey(r.dkPlaintext, kr.Packets[3].Data, <<>>)
            inner == ParsePackets(dec.data, 0)
            acts  == SelectSeq(inner.out, LAMBDA q : q.Type = ActiveKeyType)
            ents  == SelectSeq(inner.out, LAMBDA q : q.Type = KeyringEntryType)
        IN  /\ SubSeq(file, 1, 4) = <<MagicByte, r.formatVersion>> \o r.reserved
            /\ kr.err = "" /\ Len(kr.Packets) = 3
            /\ kr.Packets[1] = [Type |-> AccessKeySaltType, Data |-> r.accessKeySalt]
            /\ kr.Packets[2] = [Type |-> DataKeyType, Data |-> r.dkEncrypted]
            /\ kr.Packets[3].Type = BundleType
            /\ dec.err = "" /\ inner.err = ""
            /\ Len(inner.out) = 1 + RingLen(v)
            /\ acts = <<[Type |-> ActiveKeyType, Data |-> BE32(RingActive(v))]>>
            /\ Len(ents) = RingLen(v)
            /\ \A i \in 1..Len(ents) :
                   /\ ents[i].Data = BE32(v.keys[i].ID) \o Bytes(heap, v.keys[i].Key)
                   /\ i > 1 => Uint32(ents[i - 1].Data) < Uint32(ents[i].Data)

WriteToLayoutWitness ==
    /\ ret.op = "WriteTo" /\ ret.err = ""
    /\ RingLen(views[RingView]) = 3 /\ RingActive(views[RingView]) = 2
    /\ ring[1].accessKeySalt = Salt1
    /\ Len(ParseKeyring(file).Packets) = 3

\* C23: SingleKeyView(key) with a non-empty key returns a View of Len 1 whose
\* only entry has id 1, is active and holds the bytes of key; with a nil or
\* empty key it panics.
SingleKeyViewHasOneKey ==
    ret.op = "SingleKeyView" =>
        IF ret.arg[1] = <<>> THEN ret.err = "panic"
        ELSE /\ ret.err = "" /\ vp # NilView
             /\ ViewLen(views[vp]) = 1
             /\ {id \in Ids : ViewHas(views[vp], id)} = {1}
             /\ ViewActive(views[vp]) = 1
             /\ GetBytes(heap, views[vp], 1) = ret.arg[1]
             /\ LET a == ViewGetActive(heap, views[vp])
                IN  a.id = 1 /\ Bytes(a.h, a.s) = ret.arg[1]

SingleKeyViewHasOneKeyWitness ==
    /\ ret.op = "SingleKeyView" /\ ret.err = "" /\ ret.arg[1] = <<2, 3>>
    /\ vp # NilView /\ ViewLen(views[vp]) = 1
    /\ GetBytes(heap, views[vp], 1) = <<2, 3>>
    /\ ring # <<>> /\ RingLen(views[RingView]) = 3

\* C24: when a Ring's life ends, the plaintext data key and the bytes of
\* every key of the ring, those added by Add and AddRandom included, are
\* overwritten with zeros.
ReleaseZeroesKeys ==
    ret.op = "Release" =>
        /\ \A i \in 1..Len(ring[1].dkPlaintext) : ring[1].dkPlaintext[i] = 0
        /\ \A i \in 1..Len(views[RingView].keys) :
               LET b == Bytes(heap, views[RingView].keys[i].Key)
               IN  \A j \in 1..Len(b) : b[j] = 0

\* C25: readers calling Len, Active, Has and Get on a View while each other
\* and a writer calling Add, Activate and Rekey on the Ring it came from run,
\* get the values the View was made with, whatever the order of the steps:
\* the View shares no storage with the Ring and no step changes it.
ReadersSeeSnapshot ==
    Running =>
        LET snap == g.snap[1]
            r1   == Threads.r1
            r2   == Threads.r2
        IN  /\ Obs(heap, views[vp]) = snap
            /\ (r1.pc = "done" /\ r1.op = "Len") => r1.val = snap.len
            /\ (r1.pc = "done" /\ r1.op = "Active") => r1.val = snap.active
            /\ (r2.pc = "done" /\ r2.op = "Has") => (r2.has <=> r2.arg \in snap.has)
            /\ (r2.pc = "done" /\ r2.op = "Get") =>
                   IF r2.arg \in snap.has
                   THEN r2.err = "" /\ r2.val = snap.key[r2.arg]
                   ELSE r2.err = "panic"

ReadersSeeSnapshotWitness ==
    /\ Running /\ g.snap # <<>> /\ g.snap[1].len = 1
    /\ Threads.w = "add2"
    /\ RingLen(views[RingView]) = 2 /\ RingActive(views[RingView]) = 2
    /\ ring[1].accessKeySalt = Salt1
    /\ Threads.r1.pc = "done" /\ Threads.r1.op = "Active" /\ Threads.r1.val = 1
    /\ Threads.r2.pc = "done" /\ Threads.r2.op = "Get" /\ Threads.r2.arg = 1
    /\ Threads.r2.val = <<2, 3>>

\* C26: a Ring made with the key and salt of AccessKeyFromPassphrase(p) and
\* written is read back by Read with HKDF(p): called on the salt the
\* container holds, HKDF(p) gives the same 32-byte key, whatever the salt
\* drawn, and Read succeeds with the keys and the active id written.
PassphraseReopens ==
    (ret.op = "ReadHKDF" /\ g.rsrc # <<>>) =>
        \A rnd \in SaltBytes :
            LET p  == ret.arg[1]
                kp == AccessKeyFromPassphrase(p, rnd)
            IN  (Written.ak = kp.key /\ ret.pre = <<kp.salt>>) =>
                    /\ Len(kp.key) = AccessKeyLen
                    /\ CallAccessKeyFunc(HKDF(p), kp.salt) = kp.key
                    /\ ret.err = ""
                    /\ ret.ring # <<>>
                    /\ ObsRead(ret.ring[1]) = Written.obs

PassphraseReopensWitness ==
    /\ ret.op = "ReadHKDF" /\ g.rsrc # <<>> /\ ret.arg = <<Hunter2>>
    /\ Written.ak = AccessKeyFromPassphrase(Hunter2, 41).key
    /\ ret.pre = <<Fill(32, 41)>>
    /\ ret.err = "" /\ ret.ring # <<>>
    /\ ObsRead(ret.ring[1]).len = 2 /\ ObsRead(ret.ring[1]).active = 2

\* C27: DecryptWithKey called with a key other than the one the data was
\* sealed with, and called on data with a changed ciphertext or tag byte,
\* returns the same error and no plaintext in both cases; so does Read, for
\* a wrong access key and for a changed byte of the wrapped data key or of
\* the bundle.  With the right key and unchanged data both succeed.
DecryptFailsAlike ==
    /\ ret.op = "DecryptWithKey" =>
           LET right    == IF ret.arg[1] = DataKeyType THEN g.ak ELSE ring[1].dkPlaintext
               wrongKey == ret.arg[2] # right
               changed  == PacketData(file, ret.arg[1]) # PacketData(Stored, ret.arg[1])
           IN  IF wrongKey \/ changed
               THEN ret.err = AuthFailed /\ ret.ring = <<<<>>>>
               ELSE ret.err = "" /\ ret.ring # <<<<>>>>
    /\ ret.op = "ReadData" =>
           LET wrongKey == ret.arg[1] # g.ak
               changed  == file # Stored
           IN  IF wrongKey \/ changed
               THEN ret.err = AuthFailed /\ ret.ring = <<>>
               ELSE ret.err = "" /\ ret.ring # <<>>

\* Read with the right key fails on a container whose bundle tag was changed.
DecryptFailsAlikeWitness ==
    /\ ret.op = "ReadData" /\ ret.arg[1] = g.ak
    /\ file = Tamper(Stored, Len(Stored))
    /\ Len(views[RingView].keys) = 2
    /\ ret.err = AuthFailed /\ ret.ring = <<>>

\* C28: with crand.Read giving a value it has not given before, no two of
\* the seals made by New, Rekey and WriteTo under one key have the same
\* nonce; the nonce of every seal has 24 bytes, is the one the payload
\* starts with and is not the zero buffer; and a call in which crand.Read
\* fails returns an error and seals nothing.
NoNonceReuse ==
    LET log == SealLog.seals IN
    /\ \A i, j \in 1..Len(log) :
           (i < j /\ log[i].key = log[j].key) => log[i].nonce # log[j].nonce
    /\ \A i \in 1..Len(log) :
           /\ Len(log[i].nonce) = NonceSize
           /\ log[i].prefix = log[i].nonce
           /\ log[i].nonce # ZeroNonce
    /\ ~SealLog.ok => (ret.err # "" /\ SealLog.added = 0)
    /\ (ret.op = "WriteTo" /\ ~SealLog.ok) => (file = <<>> /\ ret.val = 0)
    /\ (ret.op = "New" /\ ~SealLog.ok) => ring = <<>>

\* Two wraps of the data key under one access key and two seals of the
\* bundle have been made, and the last call failed to draw a nonce.
NoNonceReuseWitness ==
    /\ Len(SealLog.seals) = 4
    /\ SealLog.seals[1].key = SealLog.seals[2].key
    /\ SealLog.seals[3].key = SealLog.seals[4].key
    /\ SealLog.seals[1].key # SealLog.seals[3].key
    /\ ret.op = "WriteTo" /\ ~SealLog.ok /\ ret.err # ""

\* C29: WriteTo returns the number of bytes it wrote, and for the Ring made
\* with the key and salt of AccessKeyFromPassphrase("hunter2"), holding
\* "too many secrets" with id 1 and "no more secrets" with id 2, the active
\* one, that number is 199.
WriteToCountsExample ==
    (ret.op = "WriteTo" /\ ret.err = "") =>
        /\ ret.val = Len(file)
        /\ LET obs == Obs(heap, views[RingView]) IN
           ( /\ \E rnd \in SaltBytes :
                    LET kp == AccessKeyFromPassphrase(Hunter2, rnd)
                    IN  g.ak = kp.key /\ ring[1].accessKeySalt = kp.salt
             /\ obs.len = 2 /\ obs.active = 2
             /\ obs.key[1] = TooManySecrets /\ obs.key[2] = NoMoreSecrets )
           => ret.val = 199

ReadActiveInRange ==
    (ret.op = "Read" /\ ret.err = "" /\ ret.ring # <<>>) =>
        LET r == ret.ring[1] IN
        /\ r.activeKey >= 0 /\ r.activeKey < Len(r.keys)
        /\ FindKey(r.keys, r.keys[r.activeKey + 1].ID) >= 0

\* The ids of keys are not zero and strictly ascending, and FindKey gives
\* the position of an id when an entry has it and -1 when none has.
SortedById(keys) ==
    /\ \A i \in 1..Len(keys) : keys[i].ID > 0
    /\ \A i, j \in 1..Len(keys) : i < j => keys[i].ID < keys[j].ID
    /\ \A id \in Ids :
           LET pos == FindKey(keys, id) IN
           IF \E i \in 1..Len(keys) : keys[i].ID = id
           THEN pos >= 0 /\ keys[pos + 1].ID = id
           ELSE pos = -1

\* C32: the key list of the Ring and of every View is strictly ascending by
\* id, without a zero id, and FindKey finds an id exactly when an entry has
\* it; so is the key list Read returns, whose ids are those of the entries of
\* the container in whatever order they were stored.
KeysSortedById ==
    /\ \A a \in DOMAIN views : SortedById(views[a].keys)
    /\ (ret.op = "Read" /\ ret.err = "" /\ ret.ring # <<>>) =>
           /\ SortedById(ret.ring[1].keys)
           /\ g.rsrc # <<>> =>
                  {ret.ring[1].keys[i].ID : i \in 1..Len(ret.ring[1].keys)} =
                      {Written.ids[i] : i \in 1..Len(Written.ids)}

\* A container with the entry of id 2 stored before that of id 1 was read,
\* and a key was added to the Ring read.
KeysSortedByIdWitness ==
    /\ ret.op = "Add" /\ ret.val = 3
    /\ Len(views[RingView].keys) = 3
    /\ views[RingView].keys[1].ID = 1
    /\ Bytes(heap, views[RingView].keys[1].Key) = BundleKey(2)
    /\ Bytes(heap, views[RingView].keys[2].Key) = BundleKey(1)
    /\ vp # NilView /\ Len(views[vp].keys) = 2

\* C33: in every state of a Ring made by New or read back, and changed by
\* Add, AddRandom, Activate and Rekey, decrypting the wrapped data key the
\* Ring holds with its current access key gives the plaintext data key it
\* holds.
DataKeyMatches ==
    ring # <<>> =>
        LET d == DecryptWithKey(g.ak, ring[1].dkEncrypted, <<>>) IN
        /\ d.err = ""
        /\ d.data = ring[1].dkPlaintext
        /\ Len(ring[1].dkPlaintext) = KeyLen

\* A key added to a Ring that was rekeyed, written and read back.
DataKeyMatchesWitness ==
    /\ ring # <<>> /\ ret.op = "Add" /\ ret.pre = <<TRUE>> /\ ret.err = ""
    /\ g.ak = AccessKey1
    /\ SubSeq(ring[1].dkEncrypted, 1, NonceSize) = Nonce1
    /\ ring[1].dkPlaintext = GenerateKey(AccessKeyLen, RandomByte)
    /\ Len(views[RingView].keys) = 3

\* C34: no step of Add, AddRandom, Activate, Rekey, View or WriteTo removes
\* or changes a key of the Ring: every id it has, it still has, with the
\* same bytes, and Len does not decrease.
KeysStay ==
    [][ (ring # <<>> /\ ring' # <<>>) =>
            LET o == Obs(heap, views[RingView])
                n == Obs(heap', views'[RingView])
            IN  /\ n.len >= o.len
                /\ \A id \in o.has : id \in n.has /\ n.key[id] = o.key[id]
      ]_vars

\* The Ring was given two more keys, rekeyed and written, with a View held.
KeysStayWitness ==
    /\ ring # <<>> /\ ret.op = "WriteTo" /\ ret.err = ""
    /\ vp # NilView /\ g.ak = AccessKey1
    /\ Obs(heap, views[RingView]).len = 3
    /\ Obs(heap, views[RingView]).key[1] = <<2, 3>>
    /\ Obs(heap, views[vp]).len = 1

\* C35: a successful Rekey changes of the Ring only the wrapped data key and
\* the salt: the plaintext data key, maxID, the ids, the key bytes and the
\* active id are as before, and the new wrapped data key is the same
\* plaintext sealed under the new access key.
RekeyKeepsDataKey ==
    [][ (ret'.op = "Rekey" /\ ret'.err = "") =>
            /\ ring'[1] = [ring[1] EXCEPT !.dkEncrypted = ring'[1].dkEncrypted,
                                          !.accessKeySalt = ring'[1].accessKeySalt]
            /\ ring'[1].dkPlaintext = ring[1].dkPlaintext
            /\ ring'[1].maxID = ring[1].maxID
            /\ Obs(heap', views'[RingView]) = Obs(heap, views[RingView])
            /\ DecryptWithKey(ret'.arg[1], ring'[1].dkEncrypted, <<>>) =
                   [data |-> ring[1].dkPlaintext, err |-> ""]
      ]_vars

\* A Ring of three keys, the second active, was rekeyed from AccessKey0 to
\* AccessKey1 with a new salt.
RekeyKeepsDataKeyWitness ==
    /\ ret.op = "Rekey" /\ ret.err = ""
    /\ ret.arg = <<AccessKey1, <<Salt1>> >>
    /\ ret.pre[1].old = AccessKey0
    /\ ring[1].accessKeySalt = Salt1 /\ ring[1].maxID = 3
    /\ ring[1].dkPlaintext = GenerateKey(AccessKeyLen, RandomByte)
    /\ RingLen(views[RingView]) = 3 /\ RingActive(views[RingView]) = 2

\* C36: Read of what a Ring wrote, with its access key, gives a Ring with the
\* writer's fields: format version, reserved bytes, salt, the wrapped data
\* key byte for byte as the writer holds it, the plaintext data key, the ids
\* and bytes of the keys in the same order, the active index, and maxID,
\* the largest id.
ReadRestoresFields ==
    (ret.op = "Read" /\ ring # <<>> /\ g.rsrc # <<>> /\ ret.arg[1] = Written.ak) =>
        /\ ret.err = "" /\ ret.ring # <<>>
        /\ LET r == ret.ring[1]
               w == ring[1]
               v == views[RingView]
           IN  /\ r.formatVersion = w.formatVersion
               /\ r.reserved = w.reserved
               /\ r.accessKeySalt = w.accessKeySalt
               /\ r.dkEncrypted = w.dkEncrypted
               /\ r.dkPlaintext = w.dkPlaintext
               /\ r.keys = [i \in 1..Len(v.keys) |->
                               [ID |-> v.keys[i].ID, Key |-> Bytes(heap, v.keys[i].Key)]]
               /\ r.activeKey = v.activeKey
               /\ r.maxID = w.maxID
               /\ r.maxID = r.keys[Len(r.keys)].ID

\* The writer was rekeyed with a new salt and holds three keys, the second
\* active.
ReadRestoresFieldsWitness ==
    /\ ret.op = "Read" /\ ret.err = "" /\ ret.ring # <<>> /\ ring # <<>>
    /\ ret.arg[1] = AccessKey1
    /\ ret.ring[1].accessKeySalt = Salt1
    /\ SubSeq(ret.ring[1].dkEncrypted, 1, NonceSize) = Nonce1
    /\ ret.ring[1].activeKey = 1 /\ ret.ring[1].maxID = 3
    /\ ret.ring[1].dkEncrypted = ring[1].dkEncrypted

\* C37: EncryptWithKey with a 32-byte key gives the 24-byte nonce followed by
\* the ciphertext and the tag, 24 + len(data) + 16 bytes; DecryptWithKey of
\* that output with the same key and associated data returns data, and with
\* another key, other associated data, or a part of the output that is
\* shorter (shorter than 24 bytes too) it returns an error and no data.
SealedOpens ==
    /\ (ret.op = "EncryptWithKey" /\ Len(ret.arg[1]) = KeyLen) =>
           /\ ret.err = "" /\ ret.val = NonceSize
           /\ Len(file) = NonceSize + Len(ret.arg[2]) + Overhead
           /\ SubSeq(file, 1, NonceSize) = ret.arg[4]
    /\ (ret.op = "DecryptSealed" /\ g.src # <<>>) =>
           LET src == g.src[1]
               n   == ret.arg[3]
           IN  IF ret.arg[1] = src.key /\ ret.arg[2] = src.extra /\ n = Len(file)
               THEN ret.err = "" /\ ret.ring = <<src.data>>
               ELSE /\ ret.err # "" /\ ret.ring = << <<>> >>
                    /\ (Len(ret.arg[1]) = KeyLen /\ n < NonceSize) => ret.err = "short nonce"

\* Data sealed with associated data was opened with the same key and other
\* associated data.
SealedOpensWitness ==
    /\ ret.op = "DecryptSealed" /\ g.src # <<>>
    /\ g.src[1] = [key |-> AccessKey0, data |-> <<2, 3>>, extra |-> <<9>>]
    /\ ret.arg = <<AccessKey0, <<>>, Len(file)>>
    /\ ret.err # ""

\* C38: AddPacket with a payload of more than 2^24-1 bytes panics and leaves
\* the buffer as it was; with a payload within the limit it appends the type
\* byte, then the payload's length in 3 bytes, big-endian, then the payload,
\* and the type byte is the one given whatever the length is.
AddPacketLimit ==
    [][ret'.op = "AddOnePacket" =>
          LET pt == ret'.arg[1]
              n  == ret'.arg[2]
              at == Len(file)
          IN  IF n > maxUint24
              THEN ret'.err = "panic" /\ file' = file
              ELSE /\ ret'.err = ""
                   /\ Len(file') = at + 4 + n
                   /\ SubSeq(file', 1, at) = file
                   /\ file'[at + 1] = pt
                   /\ uint24(SubSeq(file', at + 2, at + 4)) = n
                   /\ SubSeq(file', at + 5, at + 4 + n) = g'.src[1][Len(g'.src[1])].Data]_vars

\* A packet of more than 2^24-1 bytes was given to a Buffer that holds a
\* packet of 256 bytes.
AddPacketLimitWitness ==
    /\ ret.op = "AddOnePacket" /\ ret.err = "panic" /\ ret.arg[2] = maxUint24 + 1
    /\ file = <<255, 0, 1, 0>> \o Payload(256)

\* runList: the ids the list command prints for a Ring, those of 1..Len() the
\* Ring has.
runList(v) == {id \in 1..RingLen(v) : RingHas(v, id)}

\* The ids of the entries of a key list.
IdsOf(keys) == {keys[i].ID : i \in 1..Len(keys)}

\* C39: a Ring made by New and changed by Add, AddRandom, Activate and Rekey,
\* and a Ring read back from what such a Ring wrote, has the ids 1..Len() and
\* maxID equal to Len(); the list command, which tries the ids 1..Len(),
\* prints every key.
IdsAreDense ==
    /\ ring # <<>> =>
           /\ IdsOf(views[RingView].keys) = 1..RingLen(views[RingView])
           /\ ring[1].maxID = RingLen(views[RingView])
           /\ runList(views[RingView]) = IdsOf(views[RingView].keys)
    /\ (ret.op = "Read" /\ ret.err = "" /\ ret.ring # <<>>) =>
           /\ IdsOf(ret.ring[1].keys) = 1..RingLen(ret.ring[1])
           /\ ret.ring[1].maxID = RingLen(ret.ring[1])
           /\ runList(ret.ring[1]) = IdsOf(ret.ring[1].keys)

\* A Ring with two keys was written and read back.
IdsAreDenseWitness ==
    /\ ret.op = "Read" /\ ret.err = "" /\ ret.ring # <<>>
    /\ RingLen(ret.ring[1]) = 2 /\ ret.ring[1].maxID = 2
    /\ ring # <<>> /\ ring[1].maxID = 2

====
